---- MODULE Spec2Model ----
(***************************************************************************)
(* Code Migration Assistant: the per-repository migration pipeline of      *)
(* src/main.py together with the helpers it drives (src/app/helpers).      *)
(*                                                                         *)
(* The run is one sequential process.  pc is its position in main.py, idx  *)
(* the position of the current repository in TARGET_REPOS.  Every external *)
(* operation (git, provider REST call) is a nondeterministic choice over   *)
(* the outcomes the operation can deliver to the helper that wraps it.     *)
(***************************************************************************)
EXTENDS Integers, Sequences, FiniteSets, TLC

(***************************************************************************)
(* Bounds of the model.                                                    *)
(***************************************************************************)
MaxRepos == 2      \* longest batch
NumDirs == 2       \* distinct git directories a handle may point to
MaxMatches == 1    \* largest total match count reported by a scan
MaxFiles == 1      \* largest per-status file count of a working tree
MaxLen == 3        \* characters of file content in a scanned directory
MaxPat == 2        \* characters of pattern text in a pattern set
MaxRepl == 1       \* longest replacement text
MaxWalk == 2       \* most files in a scanned directory
MaxPasses == 2     \* most successive scans of one directory
MaxEntries == 2    \* most entries of targetRepos handed to the loader
MaxRefs == 2       \* most per-ref results of one push
MaxLines == 2      \* most lines of a configured commit description

Dirs == 1..NumDirs

VARIABLES
    MODE,                    \* TARGETS_CONFIG['mode'] after strip().lower()
    TARGET_REPOS,            \* loaded handles, each identified by its git_dir
    REPLACEMENTS,            \* number of configured patterns
    PULL_REQUEST,            \* provider types that have a pullRequest payload
    pc,                      \* position of the run in main.py
    idx,                     \* position of the current repository (0: none yet)
    flags,                   \* the six per-repository flags
    scm_provider,            \* descriptor of the current handle
    match_count_total,       \* total of the scan (-1: no scan result)
    tree,                    \* working tree status ChangeEvaluation looked at
    branch,                  \* active branch of the current repository
    wrote,                   \* the scan rewrote a file of the current repository
    calls,                   \* helper calls made for the current repository
    query_result,            \* what is_open_pull_requests returned
    push_failure,            \* what went wrong inside push_changes
    create_result,           \* the provider's answer to the create call
    status,                  \* how the current repository's pipeline stands
    ended,                   \* number of repositories whose pipeline has ended
    final_result,            \* git dirs that have a match report
    summary,                 \* the summary table was emitted
    exit_code,               \* process status (-1 while running)
    args,                    \* arguments of search_and_replace, the directory
                             \* as the last scan left it
    returned,                \* what the last scan returned and did
    history,                 \* the directory before the first scan and after
                             \* each scan
    loading,                 \* load_target_repos: the entries, how many were
                             \* handled, and the handles as they stand
    repo,                    \* the git repository a helper is called on
    helper                   \* the helper call under way: its arguments and,
                             \* once made, what it returned

config == <<MODE, TARGET_REPOS, REPLACEMENTS, PULL_REQUEST>>

vars == <<MODE, TARGET_REPOS, REPLACEMENTS, PULL_REQUEST, pc, idx, flags,
          scm_provider, match_count_total, tree, branch, wrote,
          calls, query_result, push_failure, create_result, status, ended,
          final_result, summary, exit_code, args, returned, history,
          loading, repo, helper>>

\* the state of a directory scan
scan == <<args, returned, history>>

\* the state of a helper called on its own
helpers == <<loading, repo, helper>>

\* the state of the pipeline
pipeline == <<MODE, TARGET_REPOS, REPLACEMENTS, PULL_REQUEST, pc, idx, flags,
              scm_provider, match_count_total, tree, branch, wrote,
              calls, query_result, push_failure, create_result, status,
              ended, final_result, summary, exit_code>>

\* what the helpers reported for the current repository
observed == <<query_result, push_failure, create_result>>

(***************************************************************************)
(* Configuration tables.                                                   *)
(***************************************************************************)
\* the dev mode with the commit flag left on
APP_MODES_dev_commits ==
    [dev  |-> [check_branch |-> FALSE, setup_identity |-> FALSE,
               search_only |-> TRUE, commit |-> TRUE, push |-> FALSE,
               create_pull_request |-> FALSE],
     prod |-> [check_branch |-> TRUE, setup_identity |-> TRUE,
               search_only |-> FALSE, commit |-> TRUE, push |-> TRUE,
               create_pull_request |-> TRUE]]

APP_MODES ==
    [dev  |-> [check_branch |-> FALSE, setup_identity |-> FALSE,
               search_only |-> TRUE, commit |-> FALSE, push |-> FALSE,
               create_pull_request |-> FALSE],
     prod |-> [check_branch |-> TRUE, setup_identity |-> TRUE,
               search_only |-> FALSE, commit |-> TRUE, push |-> TRUE,
               create_pull_request |-> TRUE]]

Modes == {"dev", "prod", "test"}

NoFlags == [check_branch |-> FALSE, setup_identity |-> FALSE,
            search_only |-> FALSE, commit |-> FALSE, push |-> FALSE,
            create_pull_request |-> FALSE]

\* sys.exit statuses of main.py
EXIT_OK == 0
EXIT_INVALID_MODE == 6
EXIT_IDENTITY == 2
EXIT_BRANCH == 3
EXIT_SEARCH == 10
EXIT_PR_QUERY == 6
EXIT_PUSH == 4
EXIT_PULL_REQUEST == 5

\* descriptors load_target_repos can attach; "none" is a handle whose
\* provider type was not recognised (no scm_provider attribute)
Providers ==
    {[type |-> "github", domain |-> "github.com"],
     [type |-> "github", domain |-> "enterprise"],
     [type |-> "azuredevops", domain |-> ""],
     [type |-> "none", domain |-> ""]}

NoProvider == [type |-> "none", domain |-> ""]

PullRequestConfigs == SUBSET {"github", "azuredevops"}

TreeStates == [untracked : 0..MaxFiles, modified : 0..MaxFiles,
               staged : 0..MaxFiles]

CleanTree == [untracked |-> 0, modified |-> 0, staged |-> 0]

\* tracking: the branch has an upstream; ahead: it has commits that the
\* remote branch lacks; remote_exists: origin has a same-named branch
BranchStates == {b \in [tracking : BOOLEAN, ahead : BOOLEAN,
                        remote_exists : BOOLEAN] :
                    /\ b.tracking => b.remote_exists
                    /\ ~b.remote_exists => b.ahead}

NoBranch == [tracking |-> FALSE, ahead |-> TRUE, remote_exists |-> FALSE]

\* ret: the value returned; token: the credential looked up; asked: the
\* provider client was called; open: the provider holds an open request
\* for the refs; answer: what the client returned
NoQuery == [ret |-> [kind |-> "none", open |-> FALSE, error |-> FALSE],
            token |-> "unread", asked |-> FALSE, open |-> FALSE,
            answer |-> "none"]

Batches == UNION {[1..n -> Dirs] : n \in 0..MaxRepos}

\* no scan of a modelled directory is under way
NoArgs == [directory |-> <<>>, patterns |-> <<>>, excluded_files |-> {},
           hidden_dirs |-> FALSE, search_only |-> FALSE]

NoReturn == [kind |-> "unset", result |-> <<>>, scanned |-> {},
             attempted |-> {}]

\* no load is under way, no helper is called on its own
NoLoading == [repos |-> <<>>, k |-> 0, result |-> <<>>, repo_obj |-> 0,
              scm_provider |-> <<>>, raised |-> FALSE]

NoRepo == [branches |-> {}, refs |-> {}, tracking |-> {}, active |-> "",
           start |-> <<>>]

NoHelper == [op |-> "none"]

(***************************************************************************)
(* Initial state: the configuration is loaded, nothing has run.            *)
(***************************************************************************)
Init ==
    /\ MODE \in Modes
    /\ TARGET_REPOS \in Batches
    /\ REPLACEMENTS \in 0..1
    /\ PULL_REQUEST \in PullRequestConfigs
    /\ pc = "mode_check"
    /\ idx = 0
    /\ flags = NoFlags
    /\ scm_provider = NoProvider
    /\ match_count_total = -1
    /\ tree = CleanTree
    /\ branch = NoBranch
    /\ wrote = FALSE
    /\ calls = <<>>
    /\ query_result = NoQuery
    /\ push_failure = "none"
    /\ create_result = "none"
    /\ status = "none"
    /\ ended = 0
    /\ final_result = {}
    /\ summary = FALSE
    /\ exit_code = -1
    /\ args = NoArgs
    /\ returned = NoReturn
    /\ history = <<>>
    /\ loading = NoLoading
    /\ repo = NoRepo
    /\ helper = NoHelper

(***************************************************************************)
(* app/helpers/git.py: the idempotency predicates.                         *)
(***************************************************************************)
\* the statuses mixed up: "modified" counts the untracked files
get_files_count_untracked(t, file_status) ==
    CASE file_status = "staged" -> t.staged
      [] file_status = "modified" -> t.untracked
      [] file_status = "untracked" -> t.untracked
      [] file_status = "unstaged" -> t.untracked + t.modified

get_files_count(t, file_status) ==
    CASE file_status = "staged" -> t.staged
      [] file_status = "modified" -> t.modified
      [] file_status = "untracked" -> t.untracked
      [] file_status = "unstaged" -> t.untracked + t.modified

\* every branch taken to have an upstream
has_tracking_branch_always(b) == TRUE

has_tracking_branch(b) == b.tracking

needs_push(b) == IF b.tracking THEN b.ahead ELSE FALSE

(***************************************************************************)
(* app/helpers/git.py: push_changes.  remote is the state of the 'origin'  *)
(* entry, pull and push are what remote.pull and remote.push deliver.  The *)
(* result is "true", "false" or "raise" (an exception leaves the helper),  *)
(* with the branch as the helper leaves it and the transfers it started.   *)
(***************************************************************************)
RemoteStates == {"ok", "missing", "invalid"}
PullOutcomes == {"ok", "raise"}
PushOutcomes == {"ok", "rejected", "empty", "raise"}

\* lines 361-387: the flags of a per-ref result are a set of PushInfo bits;
\* a result is accepted when its flags equal one of the five valid values
VALID_PUSH_INFO_FLAGS ==
    {{"FAST_FORWARD"}, {"NEW_HEAD"}, {"UP_TO_DATE"}, {"FORCED_UPDATE"},
     {"NEW_TAG"}}

\* flag values remote.push can report
PushInfoFlags ==
    VALID_PUSH_INFO_FLAGS \cup
    {{"ERROR"}, {"ERROR", "REJECTED"}, {"ERROR", "REMOTE_REJECTED"},
     {"DELETED"}, {}}

PushInfoLists == UNION {[1..n -> PushInfoFlags] : n \in 0..MaxRefs}

\* only the bare ERROR value counts as a failed ref
PushInfoOutcome_error_only(result) ==
    IF Len(result) = 0 THEN "empty"
    ELSE IF \E i \in 1..Len(result) : result[i] = {"ERROR"}
    THEN "rejected"
    ELSE "ok"

\* what the list returned by remote.push amounts to
PushInfoOutcome(result) ==
    IF Len(result) = 0 THEN "empty"
    ELSE IF \E i \in 1..Len(result) : result[i] \notin VALID_PUSH_INFO_FLAGS
    THEN "rejected"
    ELSE "ok"

\* the flags of the per-ref results are not looked at: a rejected push
\* counts as a success
push_changes_ignores_flags(b, remote, pull, push) ==
    IF remote = "missing"
    THEN [ret |-> "false", branch |-> b, ops |-> <<>>, failure |-> "remote"]
    ELSE IF remote = "invalid"
    THEN [ret |-> "false", branch |-> b, ops |-> <<>>, failure |-> "remote"]
    ELSE
      LET tracked == IF b.remote_exists
                     THEN [b EXCEPT !.tracking = TRUE] ELSE b
          pulled  == IF b.remote_exists THEN <<"pull">> ELSE <<>>
          push_is_needed == IF b.remote_exists
                            THEN needs_push(tracked) ELSE TRUE
      IN  IF b.remote_exists /\ pull = "raise"
          THEN [ret |-> "raise", branch |-> tracked, ops |-> pulled,
                failure |-> "pull"]
          ELSE IF ~push_is_needed
          THEN [ret |-> "true", branch |-> tracked, ops |-> pulled,
                failure |-> "none"]
          ELSE CASE push = "raise" ->
                      [ret |-> "raise", branch |-> tracked,
                       ops |-> pulled \o <<"push">>, failure |-> "push"]
                 [] push = "empty" ->
                      [ret |-> "false", branch |-> tracked,
                       ops |-> pulled \o <<"push">>, failure |-> "push"]
                 [] push = "rejected" ->
                      [ret |-> "true", branch |-> tracked,
                       ops |-> pulled \o <<"push">>, failure |-> "none"]
                 [] push = "ok" ->
                      [ret |-> "true",
                       branch |-> [tracking |-> TRUE, ahead |-> FALSE,
                                   remote_exists |-> TRUE],
                       ops |-> pulled \o <<"push">>, failure |-> "none"]

\* the push is not re-evaluated after the pull: an existing remote branch
\* is pushed to whether or not the local branch is ahead of it
push_changes_skips_recheck(b, remote, pull, push) ==
    IF remote = "missing"
    THEN [ret |-> "false", branch |-> b, ops |-> <<>>, failure |-> "remote"]
    ELSE IF remote = "invalid"
    THEN [ret |-> "false", branch |-> b, ops |-> <<>>, failure |-> "remote"]
    ELSE
      LET tracked == IF b.remote_exists
                     THEN [b EXCEPT !.tracking = TRUE] ELSE b
          pulled  == IF b.remote_exists THEN <<"pull">> ELSE <<>>
      IN  IF b.remote_exists /\ pull = "raise"
          THEN [ret |-> "raise", branch |-> tracked, ops |-> pulled,
                failure |-> "pull"]
          ELSE CASE push = "raise" ->
                      [ret |-> "raise", branch |-> tracked,
                       ops |-> pulled \o <<"push">>, failure |-> "push"]
                 [] push = "empty" ->
                      [ret |-> "false", branch |-> tracked,
                       ops |-> pulled \o <<"push">>, failure |-> "push"]
                 [] push = "rejected" ->
                      [ret |-> "false", branch |-> tracked,
                       ops |-> pulled \o <<"push">>, failure |-> "push"]
                 [] push = "ok" ->
                      [ret |-> "true",
                       branch |-> [tracking |-> TRUE, ahead |-> FALSE,
                                   remote_exists |-> TRUE],
                       ops |-> pulled \o <<"push">>, failure |-> "none"]

\* the upstream is not set after a push that created the remote branch
push_changes_leaves_upstream_unset(b, remote, pull, push) ==
    IF remote = "missing"
    THEN [ret |-> "false", branch |-> b, ops |-> <<>>, failure |-> "remote"]
    ELSE IF remote = "invalid"
    THEN [ret |-> "false", branch |-> b, ops |-> <<>>, failure |-> "remote"]
    ELSE
      LET tracked == IF b.remote_exists
                     THEN [b EXCEPT !.tracking = TRUE] ELSE b
          pulled  == IF b.remote_exists THEN <<"pull">> ELSE <<>>
          push_is_needed == IF b.remote_exists
                            THEN needs_push(tracked) ELSE TRUE
      IN  IF b.remote_exists /\ pull = "raise"
          THEN [ret |-> "raise", branch |-> tracked, ops |-> pulled,
                failure |-> "pull"]
          ELSE IF ~push_is_needed
          THEN [ret |-> "true", branch |-> tracked, ops |-> pulled,
                failure |-> "none"]
          ELSE CASE push = "raise" ->
                      [ret |-> "raise", branch |-> tracked,
                       ops |-> pulled \o <<"push">>, failure |-> "push"]
                 [] push = "empty" ->
                      [ret |-> "false", branch |-> tracked,
                       ops |-> pulled \o <<"push">>, failure |-> "push"]
                 [] push = "rejected" ->
                      [ret |-> "false", branch |-> tracked,
                       ops |-> pulled \o <<"push">>, failure |-> "push"]
                 [] push = "ok" ->
                      [ret |-> "true",
                       branch |-> [tracking |-> tracked.tracking,
                                   ahead |-> FALSE, remote_exists |-> TRUE],
                       ops |-> pulled \o <<"push">>, failure |-> "none"]

push_changes(b, remote, pull, push) ==
    IF remote = "missing"
    THEN [ret |-> "false", branch |-> b, ops |-> <<>>, failure |-> "remote"]
    ELSE IF remote = "invalid"
    THEN [ret |-> "false", branch |-> b, ops |-> <<>>, failure |-> "remote"]
    ELSE
      LET tracked == IF b.remote_exists
                     THEN [b EXCEPT !.tracking = TRUE] ELSE b
          pulled  == IF b.remote_exists THEN <<"pull">> ELSE <<>>
          push_is_needed == IF b.remote_exists
                            THEN needs_push(tracked) ELSE TRUE
      IN  IF b.remote_exists /\ pull = "raise"
          THEN [ret |-> "raise", branch |-> tracked, ops |-> pulled,
                failure |-> "pull"]
          ELSE IF ~push_is_needed
          THEN [ret |-> "true", branch |-> tracked, ops |-> pulled,
                failure |-> "none"]
          ELSE CASE push = "raise" ->
                      [ret |-> "raise", branch |-> tracked,
                       ops |-> pulled \o <<"push">>, failure |-> "push"]
                 [] push = "empty" ->
                      [ret |-> "false", branch |-> tracked,
                       ops |-> pulled \o <<"push">>, failure |-> "push"]
                 [] push = "rejected" ->
                      [ret |-> "false", branch |-> tracked,
                       ops |-> pulled \o <<"push">>, failure |-> "push"]
                 [] push = "ok" ->
                      [ret |-> "true",
                       branch |-> [tracking |-> TRUE, ahead |-> FALSE,
                                   remote_exists |-> TRUE],
                       ops |-> pulled \o <<"push">>, failure |-> "none"]

(***************************************************************************)
(* app/helpers/git.py: checkout_branch.  A repository has its local        *)
(* branches, the branches of origin it knows (refs), the local branches    *)
(* that have an upstream (tracking), the active branch ("detached" when    *)
(* HEAD is on no branch) and the start point of the branch created last.   *)
(* checkout is what branch.checkout() delivers.                            *)
(***************************************************************************)
BranchNames == {"main", "dev", "feat"}

None == "None"

CheckoutOutcomes == {"ok", "raise"}

RepoStates ==
    {r \in [branches : SUBSET BranchNames, refs : SUBSET BranchNames,
            tracking : SUBSET BranchNames,
            active : BranchNames \cup {"detached"}, start : {<<>>}] :
        /\ r.branches # {}
        /\ r.active \in r.branches \cup {"detached"}
        /\ r.tracking \subseteq (r.branches \cap r.refs)}

\* the base looked up on the remote first
BaseStart_remote_first(r, from_branch) ==
    LET from == IF from_branch = None THEN r.active ELSE from_branch
    IN  IF from \in r.refs THEN <<"remotes", from>>
        ELSE IF from \in r.branches THEN <<"heads", from>>
        ELSE <<>>

\* a base that exists nowhere replaced by the current branch
BaseStart_falls_back_to_head(r, from_branch) ==
    LET from == IF from_branch = None THEN r.active ELSE from_branch
    IN  IF from \in r.branches THEN <<"heads", from>>
        ELSE IF from \in r.refs THEN <<"remotes", from>>
        ELSE IF r.active # "detached" THEN <<"heads", r.active>>
        ELSE <<>>

\* lines 230-244: the start point of a new branch; <<>> when the base
\* exists neither locally nor on the remote
BaseStart(r, from_branch) ==
    LET from == IF from_branch = None THEN r.active ELSE from_branch
    IN  IF from \in r.branches THEN <<"heads", from>>
        ELSE IF from \in r.refs THEN <<"remotes", from>>
        ELSE <<>>

\* lines 246-257: the branch is switched to, or the checkout raises and
\* the helper returns False
Switch(r, branch_name, checkout) ==
    IF checkout = "ok"
    THEN [ret |-> TRUE, repo |-> [r EXCEPT !.active = branch_name]]
    ELSE [ret |-> FALSE, repo |-> r]

checkout_branch(r, branch_name, from_branch, checkout) ==
    IF branch_name \in r.branches
    THEN Switch(r, branch_name, checkout)
    ELSE IF branch_name \in r.refs
    THEN Switch([r EXCEPT !.branches = @ \cup {branch_name},
                          !.tracking = @ \cup {branch_name},
                          !.start = <<"remotes", branch_name>>],
                branch_name, checkout)
    ELSE IF from_branch = None /\ r.active = "detached"
    THEN \* repo.active_branch raises on a detached HEAD
         [ret |-> FALSE, repo |-> r]
    ELSE IF BaseStart(r, from_branch) = <<>>
    THEN [ret |-> FALSE, repo |-> r]
    ELSE Switch([r EXCEPT !.branches = @ \cup {branch_name},
                          !.start = BaseStart(r, from_branch)],
                branch_name, checkout)

(***************************************************************************)
(* main.py lines 206-214 and app/helpers/git.py: commit_changes.  Text is  *)
(* a sequence of characters; the configured description is a list of       *)
(* lines.  Absent is the value None where a text is expected, AbsentList   *)
(* where a list of lines is.                                               *)
(***************************************************************************)
Absent == <<"None">>

AbsentList == <<Absent>>

DefaultTitle == <<"f", "e", "a", "t">>

Titles == {Absent, <<"t">>}

DescriptionLines == {<<>>, <<"d">>, <<"e">>}

Descriptions ==
    {AbsentList} \cup UNION {[1..n -> DescriptionLines] : n \in 0..MaxLines}

\* configured: TARGETS_CONFIG holds a non-empty commitMessage
CommitMessages ==
    {c \in [configured : BOOLEAN, title : Titles,
            description : Descriptions] :
        ~c.configured => (c.title = Absent /\ c.description = AbsentList)}

\* "\n".join(lines)
RECURSIVE Join(_)
Join(lines) ==
    IF Len(lines) = 0 THEN <<>>
    ELSE IF Len(lines) = 1 THEN lines[1]
    ELSE lines[1] \o <<"\n">> \o Join(Tail(lines))

\* the truth value Python gives a description: a text, or a list of lines
Given(description) == description # Absent /\ description # <<>>

GivenLines(lines) == lines # AbsentList /\ lines # <<>>

\* main.py lines 207-214: the arguments commit_changes is called with; an
\* empty list of lines is passed on as it is
CommitArguments(COMMIT_MESSAGE) ==
    LET COMMIT_TITLE ==
            IF ~COMMIT_MESSAGE.configured THEN DefaultTitle
            ELSE IF COMMIT_MESSAGE.title = Absent THEN DefaultTitle
            ELSE COMMIT_MESSAGE.title
        COMMIT_DESCRIPTION ==
            IF ~COMMIT_MESSAGE.configured THEN AbsentList
            ELSE COMMIT_MESSAGE.description
    IN  [title |-> COMMIT_TITLE,
         description |-> IF GivenLines(COMMIT_DESCRIPTION)
                         THEN Join(COMMIT_DESCRIPTION)
                         ELSE IF COMMIT_DESCRIPTION = AbsentList THEN Absent
                         ELSE <<>>]

\* git.py lines 279-281
commit_message(title, description) ==
    IF Given(description) THEN title \o <<"\n">> \o description
    ELSE title

(***************************************************************************)
(* main.py lines 118-121 and scm_providers_operations.py lines 206-219 and *)
(* 249-262: the pull-request payload.  The payload of the targets file     *)
(* holds a body (a list of lines; 'description' for Azure DevOps), a head  *)
(* ('sourceRefName') and a base ('targetRefName').  A ref is a branch name *)
(* with or without the prefix "refs/heads/".  A body is a list of lines as *)
(* configured, or a text once it has been joined.                          *)
(***************************************************************************)
Ref(prefixed, name) == [prefixed |-> prefixed, name |-> name]

Lines(value) == [kind |-> "lines", value |-> value]

Text(value) == [kind |-> "text", value |-> value]

\* the payloads a targets file may configure
Payloads ==
    [body : {Lines(d) : d \in Descriptions},
     head : {Ref(FALSE, None)},
     base : {Ref(p, "main") : p \in BOOLEAN}]

\* "\n".join(body): of the lines of a list, or of the characters of a text
JoinBody(body) ==
    IF body.kind = "lines"
    THEN IF body.value = AbsentList THEN <<>> ELSE Join(body.value)
    ELSE Join([i \in 1..Len(body.value) |-> <<body.value[i]>>])

\* the payload as raise_pull_request rewrites it in place before the
\* create call, for a repository whose active branch is active_branch
pull_request_payload(pull_request_config, active_branch) ==
    [body |-> Text(JoinBody(pull_request_config.body)),
     head |-> Ref(TRUE, active_branch),
     base |-> Ref(TRUE, pull_request_config.base.name)]

\* the payload is not copied: what is written into it is written into the
\* configuration
TARGETS_CONFIG_after_raise_shared(configured, rewritten) == rewritten

\* main.py lines 120-121: PULL_REQUEST is a deep copy of the configured
\* payload, so the configuration is what it was after the rewrite
TARGETS_CONFIG_after_raise(configured, rewritten) == configured

(***************************************************************************)
(* app/helpers/scm_providers_operations.py: is_open_pull_requests.  query  *)
(* is what the provider client returns: "list" (the matching requests,     *)
(* non-empty iff open) or "none" (the client caught an error).  The value  *)
(* is a pair (open, error), or a bare boolean where the code returns one.  *)
(***************************************************************************)
QueryOutcomes == {"list", "none"}

Pair(o, e) == [kind |-> "pair", open |-> o, error |-> e]
Bare(v) == [kind |-> "bool", open |-> v, error |-> FALSE]

\* the length of the returned list is not looked at
is_open_pull_requests_never_open(p, cfg, github_token, azure_pat, open, query) ==
    IF p.type = "azuredevops"
    THEN IF ~azure_pat THEN Pair(FALSE, FALSE)
         ELSE IF "azuredevops" \notin cfg THEN Pair(FALSE, TRUE)
         ELSE IF query = "list" THEN Pair(FALSE, FALSE)
         ELSE Pair(FALSE, TRUE)
    ELSE IF p.type = "github"
    THEN IF ~github_token THEN Bare(FALSE)
         ELSE IF "github" \notin cfg THEN Pair(FALSE, TRUE)
         ELSE IF query = "list" THEN Pair(FALSE, FALSE)
         ELSE Pair(FALSE, TRUE)
    ELSE Pair(FALSE, TRUE)

is_open_pull_requests(p, cfg, github_token, azure_pat, open, query) ==
    IF p.type = "azuredevops"
    THEN IF ~azure_pat THEN Pair(FALSE, FALSE)
         ELSE IF "azuredevops" \notin cfg THEN Pair(FALSE, TRUE)
         ELSE IF query = "list" THEN Pair(open, FALSE)
         ELSE Pair(FALSE, TRUE)
    ELSE IF p.type = "github"
    THEN IF ~github_token THEN Bare(FALSE)
         ELSE IF "github" \notin cfg THEN Pair(FALSE, TRUE)
         ELSE IF query = "list" THEN Pair(open, FALSE)
         ELSE Pair(FALSE, TRUE)
    ELSE Pair(FALSE, TRUE)

(***************************************************************************)
(* app/helpers/github.py, azuredevops.py: request creation.  create is the *)
(* provider's answer; the client returns the request or None.              *)
(***************************************************************************)
CreateOutcomes == {"created", "already_exists", "error"}

create_pulls(create) == create = "created"

create_pull_request(create) == create = "created"

\* raise_pull_request: [ret: the boolean returned, sent: the create call
\* reached the provider]
raise_pull_request(p, cfg, gh_token, ghe_token, azure_pat, create) ==
    IF p.type = "azuredevops"
    THEN IF ~azure_pat THEN [ret |-> FALSE, sent |-> FALSE]
         ELSE IF "azuredevops" \notin cfg THEN [ret |-> FALSE, sent |-> FALSE]
         ELSE [ret |-> create_pull_request(create), sent |-> TRUE]
    ELSE IF p.type = "github"
    THEN LET token == IF p.domain = "github.com"
                      THEN gh_token ELSE ghe_token
         IN  IF ~token THEN [ret |-> FALSE, sent |-> FALSE]
             ELSE IF "github" \notin cfg THEN [ret |-> FALSE, sent |-> FALSE]
             ELSE [ret |-> create_pulls(create), sent |-> TRUE]
    ELSE [ret |-> FALSE, sent |-> FALSE]

(***************************************************************************)
(* app/helpers/operations.py: load_target_repos.  An entry of targetRepos  *)
(* has a repository type, an scmProvider block and a source; source is     *)
(* what opening or cloning it delivers.  A handle is identified by the     *)
(* position of the entry that created it; 0 is the unbound name repo_obj.  *)
(* A descriptor records the provider type and the entry it was built from. *)
(***************************************************************************)
RepoTypes == {"local", "remote", "other"}

\* "other": a type that is neither azuredevops nor github; "incomplete": a
\* recognised block that lacks one of the keys read from it
ProviderBlocks == {"github", "azuredevops", "other", "incomplete"}

SourceOutcomes == {"ok", "no_path", "already_exists", "git_error"}

Entries ==
    {e \in [type : RepoTypes, provider : ProviderBlocks,
            source : SourceOutcomes] :
        CASE e.type = "local" -> e.source \in {"ok", "no_path"}
          [] e.type = "remote" ->
               e.source \in {"ok", "already_exists", "git_error"}
          [] OTHER -> e.source = "ok"}

EntryLists == UNION {[1..n -> Entries] : n \in 1..MaxEntries}

NoDescriptor == [type |-> "none", entry |-> 0]

\* lines 76-92 and 99-117: the descriptor is attached to repo_obj and the
\* handle is appended; obj is what the name repo_obj is bound to
Attach(st, e, k, obj) ==
    [st EXCEPT
        !.k = k,
        !.repo_obj = obj,
        !.scm_provider =
            IF e.provider \in {"github", "azuredevops"}
            THEN [st.scm_provider EXCEPT
                     ![obj] = [type |-> e.provider, entry |-> k]]
            ELSE st.scm_provider,
        !.result = Append(st.result, [handle |-> obj, entry |-> k])]

\* lines 63-128: one iteration of the loop over the entries
LoadRepo(st) ==
    LET k == st.k + 1
        e == st.repos[k]
        skipped == [st EXCEPT !.k = k]
    IN  CASE e.type = "other" ->
               \* no branch binds repo_obj: it keeps the handle of an
               \* earlier entry, or is unbound and its use raises
               IF e.provider = "incomplete" \/ st.repo_obj = 0
               THEN skipped
               ELSE Attach(st, e, k, st.repo_obj)
          [] e.source \in {"no_path", "git_error"} -> skipped
          [] e.source = "already_exists" /\ e.provider = "incomplete" ->
               \* a KeyError inside the GitCommandError handler
               [st EXCEPT !.k = k, !.repo_obj = k, !.raised = TRUE]
          [] e.provider = "incomplete" -> [st EXCEPT !.k = k, !.repo_obj = k]
          [] OTHER -> Attach(st, e, k, k)

(***************************************************************************)
(* app/helpers/operations.py: search_and_replace.  Text is a sequence of   *)
(* characters.  A pattern is literal text (a regular expression without    *)
(* metacharacters) or the text "(", which does not compile.  A directory   *)
(* is a sequence of files; a file has its path relative to the directory,  *)
(* its content and whether it can be read and written.                     *)
(***************************************************************************)
Chars == {"a", "b"}

Strings(n) == UNION {[1..k -> Chars] : k \in 0..n}

\* a pattern re.findall and re.sub raise re.error for
BadPattern == <<"(">>

\* a replacement that is not a string (a number in the targets file)
NonText == <<"0">>

PatternTexts(n) == (UNION {[1..k -> Chars] : k \in 1..n}) \cup {BadPattern}

Replacements == Strings(MaxRepl) \cup {NonText}

RECURSIVE PatternChars(_, _)
PatternChars(ps, k) ==
    IF k > Len(ps) THEN 0 ELSE Len(ps[k].pattern) + PatternChars(ps, k + 1)

\* the pattern sets: the keys of the dict are distinct, its order is the
\* insertion order
PatternSets ==
    {ps \in UNION {[1..k -> [pattern : PatternTexts(MaxPat - k + 1),
                             replacement : Replacements]] : k \in 1..MaxPat} :
        /\ \A i, j \in 1..Len(ps) : i # j => ps[i].pattern # ps[j].pattern
        /\ PatternChars(ps, 1) <= MaxPat}

\* names that start with '.': a directory and a file
HiddenNames == {".d", ".f2"}

FileNames == <<"f1", ".f2", "f3", "f4">>

AccessModes == {"rw", "unreadable", "readonly"}

RECURSIVE ContentChars(_, _)
ContentChars(cs, i) ==
    IF i > Len(cs) THEN 0 ELSE Len(cs[i]) + ContentChars(cs, i + 1)

\* the shape of a directory of n files: where each file lies, what it
\* holds and how it can be opened; at most one file is hidden or has
\* restricted access
Shapes(n) ==
    {sh \in [1..n -> [hidden : BOOLEAN, content : Strings(MaxLen - n + 1),
                      access : AccessModes]] :
        /\ ContentChars([i \in 1..n |-> sh[i].content], 1) <= MaxLen
        /\ Cardinality({i \in 1..n :
               sh[i].hidden \/ sh[i].access # "rw"}) <= 1}

\* the directories: file i is FileNames[i], at the root or below a hidden
\* directory
Directories ==
    UNION {{[i \in 1..n |->
               [relpath |-> IF sh[i].hidden THEN <<".d", FileNames[i]>>
                            ELSE <<FileNames[i]>>,
                content |-> sh[i].content,
                access |-> sh[i].access]] : sh \in Shapes(n)} :
           n \in 1..MaxWalk}

\* os.path.basename(os.path.normpath(directory))
repo_name == "repo"

\* line 165: the path the exclusion list is compared with
RootRelpath(relpath) == <<repo_name>> \o relpath

\* line 163: the file lies below a directory the walk prunes
\* the files whose own name starts with '.' pruned as well
BelowHidden_or_hidden_file(relpath) ==
    \E i \in 1..Len(relpath) : relpath[i] \in HiddenNames

BelowHidden(relpath) ==
    \E i \in 1..(Len(relpath) - 1) : relpath[i] \in HiddenNames

\* lines 161-169: the files the walk hands to the scan
\* the exclusion list compared with the path without the repository prefix
Walked_unprefixed(d, excluded_files, hidden_dirs) ==
    {i \in 1..Len(d) :
        /\ hidden_dirs \/ ~BelowHidden(d[i].relpath)
        /\ Cardinality(excluded_files) > 0
             => d[i].relpath \notin excluded_files}

Walked(d, excluded_files, hidden_dirs) ==
    {i \in 1..Len(d) :
        /\ hidden_dirs \/ ~BelowHidden(d[i].relpath)
        /\ Cardinality(excluded_files) > 0
             => RootRelpath(d[i].relpath) \notin excluded_files}

compiles(pattern) == pattern # BadPattern

MatchAt(pattern, content, i) ==
    /\ i + Len(pattern) - 1 <= Len(content)
    /\ \A k \in 1..Len(pattern) : content[i + k - 1] = pattern[k]

RECURSIVE CountFrom(_, _, _)
CountFrom(pattern, content, i) ==
    IF i + Len(pattern) - 1 > Len(content) THEN 0
    ELSE IF MatchAt(pattern, content, i)
    THEN 1 + CountFrom(pattern, content, i + Len(pattern))
    ELSE CountFrom(pattern, content, i + 1)

\* len(re.findall(pattern, content)): the non-overlapping matches, leftmost
\* first
findall(pattern, content) == CountFrom(pattern, content, 1)

RECURSIVE SubFrom(_, _, _, _)
SubFrom(pattern, replacement, content, i) ==
    IF i > Len(content) THEN <<>>
    ELSE IF MatchAt(pattern, content, i)
    THEN replacement \o SubFrom(pattern, replacement, content,
                                i + Len(pattern))
    ELSE <<content[i]>> \o SubFrom(pattern, replacement, content, i + 1)

\* re.sub(pattern, replacement, content)
sub(pattern, replacement, content) == SubFrom(pattern, replacement, content, 1)

\* lines 189-191: the matches of one pattern in one file enter the report
\* the count is added but the file is listed with a count of one
Record_listed_once(result, pattern, relpath, matches) ==
    [result EXCEPT ![pattern] =
        [count |-> @.count + matches, match |-> (relpath :> 1) @@ @.match]]

Record(result, pattern, relpath, matches) ==
    [result EXCEPT ![pattern] =
        [count |-> @.count + matches,
         match |-> (relpath :> matches) @@ @.match]]

\* lines 183-196: the patterns from the k-th on are applied to one file;
\* done is the set of patterns searched for, raised that an exception other
\* than re.error left the loop
RECURSIVE ScanPatterns(_, _, _, _, _, _)
ScanPatterns(result, updated_content, done, file, patterns, k) ==
    IF k > Len(patterns)
    THEN [result |-> result, updated_content |-> updated_content,
          done |-> done, raised |-> FALSE]
    ELSE LET pattern == patterns[k].pattern
             replacement == patterns[k].replacement
         IN  IF ~compiles(pattern)
             THEN ScanPatterns(result, updated_content, done, file,
                               patterns, k + 1)
             ELSE LET matches == findall(pattern, file.content)
                      counted == IF matches > 0
                                 THEN Record(result, pattern, file.relpath,
                                             matches)
                                 ELSE result
                  IN  IF replacement = NonText
                      THEN [result |-> counted,
                            updated_content |-> updated_content,
                            done |-> done \cup {k}, raised |-> TRUE]
                      ELSE ScanPatterns(counted,
                              sub(pattern, replacement, updated_content),
                              done \cup {k}, file, patterns, k + 1)

\* line 197: the scan rewrites a file
\* the write decided without looking at search_only
ShouldWrite_always(changed, dry_run) == changed

ShouldWrite(changed, dry_run) == changed /\ ~dry_run

\* lines 169-204 for the files from the i-th on.  acc: the report so far,
\* the directory as the writes leave it, scanned: the (file, pattern) pairs
\* searched, attempted: the files a write was started for, raised: an
\* exception reached the outer handler
\* a file that cannot be read ends the walk
RECURSIVE Walk_read_error_aborts(_, _, _, _, _)
Walk_read_error_aborts(acc, i, files, patterns, search_only) ==
    IF acc.raised \/ i > Len(acc.directory) THEN acc
    ELSE IF i \notin files
    THEN Walk_read_error_aborts(acc, i + 1, files, patterns, search_only)
    ELSE IF acc.directory[i].access = "unreadable"
    THEN [acc EXCEPT !.raised = TRUE]
    ELSE
      LET file == acc.directory[i]
          r == ScanPatterns(acc.result, file.content, {}, file, patterns, 1)
          write == ~r.raised /\ ShouldWrite(r.updated_content # file.content,
                                           search_only)
          written == write /\ file.access = "rw"
      IN  Walk_read_error_aborts(
              [result |-> r.result,
               directory |-> IF written
                             THEN [acc.directory EXCEPT
                                      ![i].content = r.updated_content]
                             ELSE acc.directory,
               scanned |-> acc.scanned \cup {<<i, k>> : k \in r.done},
               attempted |-> IF write THEN acc.attempted \cup {i}
                             ELSE acc.attempted,
               raised |-> r.raised],
              i + 1, files, patterns, search_only)

RECURSIVE Walk(_, _, _, _, _)
Walk(acc, i, files, patterns, search_only) ==
    IF acc.raised \/ i > Len(acc.directory) THEN acc
    ELSE IF i \notin files
    THEN Walk(acc, i + 1, files, patterns, search_only)
    ELSE IF acc.directory[i].access = "unreadable"
    THEN Walk(acc, i + 1, files, patterns, search_only)
    ELSE
      LET file == acc.directory[i]
          r == ScanPatterns(acc.result, file.content, {}, file, patterns, 1)
          write == ~r.raised /\ ShouldWrite(r.updated_content # file.content,
                                           search_only)
          written == write /\ file.access = "rw"
      IN  Walk([result |-> r.result,
                directory |-> IF written
                              THEN [acc.directory EXCEPT
                                       ![i].content = r.updated_content]
                              ELSE acc.directory,
                scanned |-> acc.scanned \cup {<<i, k>> : k \in r.done},
                attempted |-> IF write THEN acc.attempted \cup {i}
                              ELSE acc.attempted,
                raised |-> r.raised],
               i + 1, files, patterns, search_only)

\* lines 152-208: the value returned (kind "report" with the report, or
\* kind "none"), the directory as the scan leaves it and what it did
search_and_replace(directory, patterns, excluded_files, hidden_dirs, search_only) ==
    LET empty == [pattern \in {patterns[k].pattern : k \in 1..Len(patterns)}
                    |-> [count |-> 0, match |-> <<>>]]
        w == Walk([result |-> empty, directory |-> directory,
                   scanned |-> {}, attempted |-> {}, raised |-> FALSE],
                  1, Walked(directory, excluded_files, hidden_dirs),
                  patterns, search_only)
    IN  [kind |-> IF w.raised THEN "none" ELSE "report",
         result |-> IF w.raised THEN <<>> ELSE w.result,
         directory |-> w.directory,
         scanned |-> w.scanned,
         attempted |-> w.attempted]

(***************************************************************************)
(* main.py: decisions of the per-repository loop.                          *)
(***************************************************************************)
RECURSIVE SumCounts(_, _)
SumCounts(result, keys) ==
    IF keys = {} THEN 0
    ELSE LET pattern == CHOOSE key \in keys : TRUE
         IN  result[pattern].count + SumCounts(result, keys \ {pattern})

\* lines 110-111: the total over the patterns of a report
MatchCountTotal(result) == SumCounts(result, DOMAIN result)

\* repo != TARGET_REPOS[-1]: handles compare by their git_dir
IsLastRepo(i) == TARGET_REPOS[i] = TARGET_REPOS[Len(TARGET_REPOS)]

\* the evaluation that leaves the push flag on when nothing is to be pushed
ChangeEvaluation_keeps_push(f, m, t, b, cfg) ==
    IF m # 0
    THEN [flags |-> f, next |-> "proceed", ops |-> <<>>]
    ELSE
      LET counted == <<"get_files_count", "get_files_count">>
          f1 == [f EXCEPT !.commit = FALSE]
          f2 == f1
      IN  IF get_files_count(t, "modified") + get_files_count(t, "staged") > 0
          THEN [flags |-> f, next |-> "proceed", ops |-> counted]
          ELSE IF ~has_tracking_branch(b)
          THEN [flags |-> f1, next |-> "continue",
                ops |-> counted \o <<"has_tracking_branch">>]
          ELSE IF needs_push(b)
          THEN [flags |-> f1, next |-> "proceed",
                ops |-> counted \o <<"has_tracking_branch", "needs_push">>]
          ELSE IF cfg = {}
          THEN [flags |-> f2, next |-> "continue",
                ops |-> counted \o <<"has_tracking_branch", "needs_push">>]
          ELSE [flags |-> f2, next |-> "query",
                ops |-> counted \o <<"has_tracking_branch", "needs_push">>]

\* the evaluation that looks for an upstream before it counts the files
ChangeEvaluation_upstream_first(f, m, t, b, cfg) ==
    IF m # 0
    THEN [flags |-> f, next |-> "proceed", ops |-> <<>>]
    ELSE
      LET counted == <<"get_files_count", "get_files_count">>
          f1 == [f EXCEPT !.commit = FALSE]
          f2 == [f1 EXCEPT !.push = FALSE]
      IN  IF ~has_tracking_branch(b)
          THEN [flags |-> f1, next |-> "continue",
                ops |-> counted \o <<"has_tracking_branch">>]
          ELSE IF get_files_count(t, "modified") + get_files_count(t, "staged") > 0
          THEN [flags |-> f, next |-> "proceed", ops |-> counted]
          ELSE IF needs_push(b)
          THEN [flags |-> f1, next |-> "proceed",
                ops |-> counted \o <<"has_tracking_branch", "needs_push">>]
          ELSE IF cfg = {}
          THEN [flags |-> f2, next |-> "continue",
                ops |-> counted \o <<"has_tracking_branch", "needs_push">>]
          ELSE [flags |-> f2, next |-> "query",
                ops |-> counted \o <<"has_tracking_branch", "needs_push">>]

\* lines 123-153 and 184-195: what ChangeEvaluation decides from the scan
\* total m, the working tree t, the branch b and the pull-request
\* configuration cfg, before it asks the provider.  next is "proceed" (go
\* on to commit), "continue" (next repository) or "query" (ask for open
\* requests).
ChangeEvaluation(f, m, t, b, cfg) ==
    IF m # 0
    THEN [flags |-> f, next |-> "proceed", ops |-> <<>>]
    ELSE
      LET counted == <<"get_files_count", "get_files_count">>
          f1 == [f EXCEPT !.commit = FALSE]
          f2 == [f1 EXCEPT !.push = FALSE]
      IN  IF get_files_count(t, "modified") + get_files_count(t, "staged") > 0
          THEN [flags |-> f, next |-> "proceed", ops |-> counted]
          ELSE IF ~has_tracking_branch(b)
          THEN [flags |-> f1, next |-> "continue",
                ops |-> counted \o <<"has_tracking_branch">>]
          ELSE IF needs_push(b)
          THEN [flags |-> f1, next |-> "proceed",
                ops |-> counted \o <<"has_tracking_branch", "needs_push">>]
          ELSE IF cfg = {}
          THEN [flags |-> f2, next |-> "continue",
                ops |-> counted \o <<"has_tracking_branch", "needs_push">>]
          ELSE [flags |-> f2, next |-> "query",
                ops |-> counted \o <<"has_tracking_branch", "needs_push">>]

\* lines 157-182: what the value q returned by is_open_pull_requests leads
\* to.  "fault": unpacking q raised; "fail": the query reported an error.
\* the gate without the check for an open request
OpenRequestGate_no_open_check(f, q) ==
    IF q.kind # "pair"
    THEN [flags |-> f, next |-> "fault"]
    ELSE IF q.error
    THEN [flags |-> f, next |-> "fail"]
    ELSE [flags |-> f, next |-> "proceed"]

\* the gate switching the push back on when it lets the creation proceed
OpenRequestGate_reenables_push(f, q) ==
    IF q.kind # "pair"
    THEN [flags |-> f, next |-> "fault"]
    ELSE IF q.error
    THEN [flags |-> f, next |-> "fail"]
    ELSE IF q.open
    THEN [flags |-> [f EXCEPT !.create_pull_request = FALSE],
          next |-> "continue"]
    ELSE [flags |-> [f EXCEPT !.push = TRUE], next |-> "proceed"]

OpenRequestGate(f, q) ==
    IF q.kind # "pair"
    THEN [flags |-> f, next |-> "fault"]
    ELSE IF q.error
    THEN [flags |-> f, next |-> "fail"]
    ELSE IF q.open
    THEN [flags |-> [f EXCEPT !.create_pull_request = FALSE],
          next |-> "continue"]
    ELSE [flags |-> f, next |-> "proceed"]

\* lines 228-232: what the request-creation stage does before it calls the
\* helper: "done" (flag off), "skip" (no payload configured) or "raise"
\* the gate that does not look for a configured payload
PullRequestGate_ignores_spec(f, cfg) ==
    IF ~f.create_pull_request THEN "done" ELSE "raise"

PullRequestGate(f, cfg) ==
    IF ~f.create_pull_request THEN "done"
    ELSE IF cfg = {} THEN "skip"
    ELSE "raise"

\* the order of the stages in the loop body (lines 72, 85, 98, 118, 206,
\* 216, 228)
\* the loop body with the push placed before the commit
StageAfter_push_first(stage) ==
    CASE stage = "identity" -> "branch"
      [] stage = "branch" -> "search"
      [] stage = "search" -> "evaluate"
      [] stage = "evaluate" -> "push"
      [] stage = "push" -> "commit"
      [] stage = "commit" -> "pull_request"

StageAfter(stage) ==
    CASE stage = "identity" -> "branch"
      [] stage = "branch" -> "search"
      [] stage = "search" -> "evaluate"
      [] stage = "evaluate" -> "commit"
      [] stage = "commit" -> "push"
      [] stage = "push" -> "pull_request"

(***************************************************************************)
(* How an iteration of the loop ends.                                      *)
(***************************************************************************)
\* a 'continue' that exits with a failure status at the last repository
Continue_exits_at_last(st) ==
    /\ status' = st
    /\ ended' = ended + 1
    /\ IF st = "skipped" /\ IsLastRepo(idx)
       THEN pc' = "exited" /\ exit_code' = EXIT_PR_QUERY
       ELSE pc' = "loop" /\ UNCHANGED exit_code

\* 'continue' without an error
Continue(st) ==
    /\ pc' = "loop"
    /\ status' = st
    /\ ended' = ended + 1
    /\ UNCHANGED exit_code

\* the skip-or-abort policy after an error
SkipOrExit(code) ==
    /\ status' = "failed"
    /\ ended' = ended + 1
    /\ IF ~IsLastRepo(idx)
       THEN pc' = "loop" /\ UNCHANGED exit_code
       ELSE pc' = "exited" /\ exit_code' = code

\* an exception nothing catches
Fault ==
    /\ pc' = "fault"
    /\ status' = "fault"
    /\ ended' = ended + 1
    /\ exit_code' = 1

(***************************************************************************)
(* main.py, lines 37-49 and 265-269.                                       *)
(***************************************************************************)
CheckMode ==
    /\ pc = "mode_check"
    /\ UNCHANGED <<scan, helpers>>
    /\ IF MODE \notin DOMAIN APP_MODES
       THEN pc' = "exited" /\ exit_code' = EXIT_INVALID_MODE
       ELSE IF Len(TARGET_REPOS) > 0 /\ REPLACEMENTS > 0
       THEN pc' = "loop" /\ UNCHANGED exit_code
       ELSE pc' = "exited" /\ exit_code' = EXIT_OK
    /\ UNCHANGED <<config, idx, flags, scm_provider,
                   match_count_total, tree, branch, wrote, calls, observed,
                   status, ended, final_result, summary>>

\* the loop reading the flags of the mode for the first repository only
NextRepo_keeps_flags ==
    /\ pc = "loop"
    /\ UNCHANGED <<scan, helpers>>
    /\ idx < Len(TARGET_REPOS)
    /\ idx' = idx + 1
    /\ flags' = IF idx = 0 THEN APP_MODES[MODE] ELSE flags
    /\ scm_provider' \in Providers
    /\ match_count_total' = -1
    /\ tree' = CleanTree
    /\ branch' = NoBranch
    /\ wrote' = FALSE
    /\ calls' = <<>>
    /\ query_result' = NoQuery
    /\ push_failure' = "none"
    /\ create_result' = "none"
    /\ status' = "running"
    /\ pc' = "identity"
    /\ UNCHANGED <<config, ended, final_result, summary, exit_code>>

\* lines 50-70: the loop takes the next handle and reads the mode's flags
NextRepo ==
    /\ pc = "loop"
    /\ UNCHANGED <<scan, helpers>>
    /\ idx < Len(TARGET_REPOS)
    /\ idx' = idx + 1
    /\ flags' = APP_MODES[MODE]
    /\ scm_provider' \in Providers
    /\ match_count_total' = -1
    /\ tree' = CleanTree
    /\ branch' = NoBranch
    /\ wrote' = FALSE
    /\ calls' = <<>>
    /\ query_result' = NoQuery
    /\ push_failure' = "none"
    /\ create_result' = "none"
    /\ status' = "running"
    /\ pc' = "identity"
    /\ UNCHANGED <<config, ended, final_result, summary, exit_code>>

\* lines 246-264: the loop is over, the summary is rendered
Summary ==
    /\ pc = "loop"
    /\ UNCHANGED <<scan, helpers>>
    /\ idx = Len(TARGET_REPOS)
    /\ summary' = TRUE
    /\ pc' = "finished"
    /\ exit_code' = EXIT_OK
    /\ UNCHANGED <<config, idx, flags, scm_provider,
                   match_count_total, tree, branch, wrote, calls, observed,
                   status, ended, final_result>>

\* lines 72-83
IdentitySetup ==
    /\ pc = "identity"
    /\ UNCHANGED <<scan, helpers>>
    /\ IF flags.setup_identity
       THEN \E identity_configured \in BOOLEAN :
              /\ calls' = Append(calls, "identity_setup")
              /\ IF identity_configured
                 THEN /\ pc' = StageAfter("identity")
                      /\ UNCHANGED <<status, ended, exit_code>>
                 ELSE SkipOrExit(EXIT_IDENTITY)
       ELSE /\ pc' = StageAfter("identity")
            /\ UNCHANGED <<calls, status, ended, exit_code>>
    /\ UNCHANGED <<config, idx, flags, scm_provider,
                   match_count_total, tree, branch, wrote, observed,
                   final_result, summary>>

\* lines 85-96: on success the target branch is the active branch
BranchCheck ==
    /\ pc = "branch"
    /\ UNCHANGED <<scan, helpers>>
    /\ IF flags.check_branch
       THEN \E branch_checked \in BOOLEAN, b \in BranchStates :
              /\ calls' = Append(calls, "checkout_branch")
              /\ IF branch_checked
                 THEN /\ pc' = StageAfter("branch")
                      /\ branch' = b
                      /\ UNCHANGED <<status, ended, exit_code>>
                 ELSE /\ SkipOrExit(EXIT_BRANCH)
                      /\ UNCHANGED branch
       ELSE /\ pc' = StageAfter("branch")
            /\ UNCHANGED <<calls, branch, status, ended, exit_code>>
    /\ UNCHANGED <<config, idx, flags, scm_provider,
                   match_count_total, tree, wrote, observed, final_result,
                   summary>>

\* lines 98-116: the scan; result is "none" (structural failure) or a
\* report with total m, after which the working tree is t
SearchAndReplace ==
    /\ pc = "search"
    /\ UNCHANGED <<scan, helpers>>
    /\ calls' = Append(calls, "search_and_replace")
    /\ \E result \in {"none", "report"}, m \in 0..MaxMatches,
          changed \in BOOLEAN :
          /\ changed => m > 0
          /\ wrote' = ShouldWrite(changed, flags.search_only)
          /\ IF result = "none"
             THEN /\ SkipOrExit(EXIT_SEARCH)
                  /\ UNCHANGED <<match_count_total, final_result>>
             ELSE /\ match_count_total' = m
                  /\ final_result' = final_result \cup {TARGET_REPOS[idx]}
                  /\ pc' = StageAfter("search")
                  /\ UNCHANGED <<status, ended, exit_code>>
    /\ UNCHANGED <<config, idx, flags, scm_provider, tree, branch,
                   observed, summary>>

\* the credential is_open_pull_requests looks up for provider p
QueryToken(p, github_token, azure_pat) ==
    CASE p.type = "azuredevops" -> IF azure_pat THEN "set" ELSE "unset"
      [] p.type = "github" -> IF github_token THEN "set" ELSE "unset"
      [] OTHER -> "unread"

\* a failed open-request query is asked again
AfterEvaluation_retries_query(next) ==
    CASE next = "proceed" ->
           /\ pc' = StageAfter("evaluate")
           /\ UNCHANGED <<status, ended, exit_code>>
      [] next = "continue" -> Continue("skipped")
      [] next = "fail" ->
           /\ pc' = "query"
           /\ UNCHANGED <<status, ended, exit_code>>
      [] next = "fault" -> Fault

\* how an iteration goes on after ChangeEvaluation
AfterEvaluation(next) ==
    CASE next = "proceed" ->
           /\ pc' = StageAfter("evaluate")
           /\ UNCHANGED <<status, ended, exit_code>>
      [] next = "continue" -> Continue("skipped")
      [] next = "fail" -> SkipOrExit(EXIT_PR_QUERY)
      [] next = "fault" -> Fault

\* is_open_pull_requests reaches the provider client for provider p
QueryAsked(p, cfg, github_token, azure_pat) ==
    /\ QueryToken(p, github_token, azure_pat) = "set"
    /\ p.type \in cfg

\* lines 118-153 and 184-195; t is the working tree the file counts are
\* taken from
Evaluate ==
    /\ pc = "evaluate"
    /\ UNCHANGED <<scan, helpers>>
    /\ IF MODE = "dev"
       THEN /\ pc' = StageAfter("evaluate")
            /\ UNCHANGED <<flags, calls, tree, query_result, status, ended,
                           exit_code>>
       ELSE \E t \in IF match_count_total = 0 THEN TreeStates ELSE {tree} :
              LET e == ChangeEvaluation(flags, match_count_total, t, branch,
                                        PULL_REQUEST)
              IN  /\ tree' = t
                  /\ IF e.next # "query"
                     THEN /\ flags' = e.flags
                          /\ calls' = calls \o e.ops
                          /\ UNCHANGED query_result
                          /\ AfterEvaluation(e.next)
                     ELSE /\ flags' = e.flags
                          /\ calls' = calls \o e.ops
                          /\ pc' = "query"
                          /\ UNCHANGED <<query_result, status, ended,
                                         exit_code>>
    /\ UNCHANGED <<config, idx, scm_provider, match_count_total,
                   branch, wrote, push_failure, create_result,
                   final_result, summary>>

\* lines 154-182: the open-request query and what follows from it; the
\* credentials are what the environment holds, open is whether the provider
\* holds an open request for the refs, query what the client returns
QueryOpenRequests ==
    /\ pc = "query"
    /\ UNCHANGED <<scan, helpers>>
    /\ \E github_token \in BOOLEAN, azure_pat \in BOOLEAN,
          open \in BOOLEAN, query \in QueryOutcomes :
          LET q == is_open_pull_requests(scm_provider, PULL_REQUEST,
                                         github_token, azure_pat, open, query)
              g == OpenRequestGate(flags, q)
              asked == QueryAsked(scm_provider, PULL_REQUEST, github_token,
                                  azure_pat)
          IN  /\ ~asked => (~open /\ query = "none")
              /\ flags' = g.flags
              /\ calls' = Append(calls, "is_open_pull_requests")
              /\ query_result' =
                    [ret |-> q,
                     token |-> QueryToken(scm_provider, github_token,
                                          azure_pat),
                     asked |-> asked, open |-> open, answer |-> query]
              /\ AfterEvaluation(g.next)
    /\ UNCHANGED <<config, idx, scm_provider, match_count_total, tree,
                   branch, wrote, push_failure, create_result,
                   final_result, summary>>

\* a commit that fails ends the repository like a failed push
Commit_gated_on_result ==
    /\ pc = "commit"
    /\ UNCHANGED <<scan, helpers>>
    /\ IF flags.commit
       THEN /\ calls' = Append(calls, "commit_changes")
            /\ \E committed \in BOOLEAN :
                 IF committed
                 THEN /\ branch' = [branch EXCEPT !.ahead = TRUE]
                      /\ pc' = StageAfter("commit")
                      /\ UNCHANGED <<status, ended, exit_code>>
                 ELSE /\ UNCHANGED branch
                      /\ SkipOrExit(EXIT_PUSH)
       ELSE /\ pc' = StageAfter("commit")
            /\ UNCHANGED <<calls, branch, status, ended, exit_code>>
    /\ UNCHANGED <<config, idx, flags, scm_provider, match_count_total,
                   tree, wrote, observed, final_result, summary>>

\* lines 206-214: the result of commit_changes is not looked at; a commit
\* that succeeds puts the branch ahead of its remote branch
Commit ==
    /\ pc = "commit"
    /\ UNCHANGED <<scan, helpers>>
    /\ IF flags.commit
       THEN /\ calls' = Append(calls, "commit_changes")
            /\ \E committed \in BOOLEAN :
                 branch' = IF committed
                           THEN [branch EXCEPT !.ahead = TRUE] ELSE branch
       ELSE UNCHANGED <<calls, branch>>
    /\ pc' = StageAfter("commit")
    /\ UNCHANGED <<config, idx, flags, scm_provider, match_count_total,
                   tree, wrote, observed, status, ended, final_result,
                   summary, exit_code>>

\* lines 216-226; an outcome is drawn only for a transfer that can start
Push ==
    /\ pc = "push"
    /\ UNCHANGED <<scan, helpers>>
    /\ IF flags.push
       THEN \E remote \in RemoteStates, pull \in PullOutcomes,
               push \in PushOutcomes :
              LET r == push_changes(branch, remote, pull, push)
              IN  /\ (remote # "ok" \/ ~branch.remote_exists) => pull = "ok"
                  /\ remote # "ok" => push = "ok"
                  /\ calls' = Append(calls, "push_changes") \o r.ops
                  /\ branch' = r.branch
                  /\ push_failure' = r.failure
                  /\ CASE r.ret = "true" ->
                             /\ pc' = StageAfter("push")
                             /\ UNCHANGED <<status, ended, exit_code>>
                       [] r.ret = "false" -> SkipOrExit(EXIT_PUSH)
                       [] r.ret = "raise" -> Fault
       ELSE /\ pc' = StageAfter("push")
            /\ UNCHANGED <<calls, branch, push_failure, status, ended,
                           exit_code>>
    /\ UNCHANGED <<config, idx, flags, scm_provider,
                   match_count_total, tree, wrote, query_result,
                   create_result, final_result, summary>>

\* lines 228-244, then the end of the loop body; the credentials are what
\* the environment holds, create is the provider's answer to the create
\* call
CreatePullRequest ==
    /\ pc = "pull_request"
    /\ UNCHANGED <<scan, helpers>>
    /\ IF PullRequestGate(flags, PULL_REQUEST) = "done"
       THEN /\ Continue("completed")
            /\ UNCHANGED <<calls, create_result>>
       ELSE IF PullRequestGate(flags, PULL_REQUEST) = "skip"
       THEN /\ Continue("skipped")
            /\ UNCHANGED <<calls, create_result>>
       ELSE \E github_token \in BOOLEAN, github_enterprise_token \in BOOLEAN,
               azure_pat \in BOOLEAN, create \in CreateOutcomes :
              LET r == raise_pull_request(scm_provider, PULL_REQUEST,
                           github_token, github_enterprise_token,
                           azure_pat, create)
              IN  /\ calls' = Append(calls, "raise_pull_request")
                  /\ create_result' = IF r.sent THEN create ELSE "none"
                  /\ IF r.ret
                     THEN Continue("completed")
                     ELSE SkipOrExit(EXIT_PULL_REQUEST)
    /\ UNCHANGED <<config, idx, flags, scm_provider, match_count_total,
                   tree, branch, wrote, query_result, push_failure,
                   final_result, summary>>

Next ==
    \/ CheckMode
    \/ NextRepo
    \/ Summary
    \/ IdentitySetup
    \/ BranchCheck
    \/ SearchAndReplace
    \/ Evaluate
    \/ QueryOpenRequests
    \/ Commit
    \/ Push
    \/ CreatePullRequest

Spec == Init /\ [][Next]_vars

(***************************************************************************)
(* Scans of one directory: the arguments are drawn, then the directory is  *)
(* scanned up to MaxPasses times with the same arguments.  The pipeline    *)
(* does not run.                                                           *)
(***************************************************************************)
\* the entries an exclusion list may hold for the first file: its path with
\* and without the repository prefix
ExclusionLists(d) ==
    IF \A i \in 1..Len(d) : Len(d[i].relpath) = 1 /\ d[i].access = "rw"
    THEN {{}, {RootRelpath(d[1].relpath)}, {d[1].relpath}}
    ELSE {{}}

InitScan ==
    /\ MODE = "prod"
    /\ TARGET_REPOS = <<>>
    /\ REPLACEMENTS = 0
    /\ PULL_REQUEST = {}
    /\ pc = "mode_check"
    /\ idx = 0
    /\ flags = NoFlags
    /\ scm_provider = NoProvider
    /\ match_count_total = -1
    /\ tree = CleanTree
    /\ branch = NoBranch
    /\ wrote = FALSE
    /\ calls = <<>>
    /\ query_result = NoQuery
    /\ push_failure = "none"
    /\ create_result = "none"
    /\ status = "none"
    /\ ended = 0
    /\ final_result = {}
    /\ summary = FALSE
    /\ exit_code = -1
    /\ \E d \in Directories, ps \in PatternSets, so \in BOOLEAN :
         \E ex \in ExclusionLists(d),
            hd \in IF \E i \in 1..Len(d) : BelowHidden(d[i].relpath)
                   THEN BOOLEAN ELSE {FALSE} :
            /\ args = [directory |-> d, patterns |-> ps,
                       excluded_files |-> ex, hidden_dirs |-> hd,
                       search_only |-> so]
            /\ history = <<d>>
    /\ returned = NoReturn
    /\ loading = NoLoading
    /\ repo = NoRepo
    /\ helper = NoHelper

\* one call of search_and_replace on the directory as it stands
ScanPass ==
    /\ Len(history) >= 1
    /\ Len(history) <= MaxPasses
    /\ LET r == search_and_replace(args.directory, args.patterns,
                                   args.excluded_files, args.hidden_dirs,
                                   args.search_only)
       IN  /\ args' = [args EXCEPT !.directory = r.directory]
           /\ returned' = [kind |-> r.kind, result |-> r.result,
                           scanned |-> r.scanned, attempted |-> r.attempted]
           /\ history' = Append(history, r.directory)
    /\ UNCHANGED <<pipeline, helpers>>

NextScan == ScanPass

SpecScan == InitScan /\ [][NextScan]_vars

(***************************************************************************)
(* Helpers called on their own: the arguments are drawn, then the helper   *)
(* runs.  Neither the pipeline nor a scan is under way.                    *)
(***************************************************************************)
IdlePipeline ==
    /\ MODE = "prod"
    /\ TARGET_REPOS = <<>>
    /\ REPLACEMENTS = 0
    /\ PULL_REQUEST = {}
    /\ pc = "mode_check"
    /\ idx = 0
    /\ flags = NoFlags
    /\ scm_provider = NoProvider
    /\ match_count_total = -1
    /\ tree = CleanTree
    /\ branch = NoBranch
    /\ wrote = FALSE
    /\ calls = <<>>
    /\ query_result = NoQuery
    /\ push_failure = "none"
    /\ create_result = "none"
    /\ status = "none"
    /\ ended = 0
    /\ final_result = {}
    /\ summary = FALSE
    /\ exit_code = -1

InitLoad ==
    /\ \E repos \in EntryLists :
         loading = [repos |-> repos, k |-> 0, result |-> <<>>,
                    repo_obj |-> 0,
                    scm_provider |-> [i \in 1..Len(repos) |-> NoDescriptor],
                    raised |-> FALSE]
    /\ repo = NoRepo
    /\ helper = [op |-> "load_target_repos"]

InitCheckout ==
    /\ loading = NoLoading
    /\ repo \in RepoStates
    /\ \E branch_name \in BranchNames, from_branch \in BranchNames \cup {None},
          checkout \in CheckoutOutcomes :
         helper = [op |-> "checkout_branch", branch_name |-> branch_name,
                   from_branch |-> from_branch, checkout |-> checkout,
                   before |-> repo, done |-> FALSE, ret |-> FALSE]

InitPush ==
    /\ loading = NoLoading
    /\ repo = NoRepo
    /\ \E b \in BranchStates, result \in PushInfoLists :
         helper = [op |-> "push_changes", branch |-> b, result |-> result,
                   done |-> FALSE, ret |-> "none", ops |-> <<>>]

InitCommit ==
    /\ loading = NoLoading
    /\ repo = NoRepo
    /\ \E COMMIT_MESSAGE \in CommitMessages :
         helper = [op |-> "commit_changes", config |-> COMMIT_MESSAGE,
                   title |-> <<>>, description |-> Absent,
                   done |-> FALSE, commit_message |-> <<>>]

\* a batch of up to MaxRepos repositories, each with its active branch,
\* and the payload the targets file configures
InitRaise ==
    /\ loading = NoLoading
    /\ repo = NoRepo
    /\ \E payload \in Payloads,
          branches \in UNION {[1..n -> BranchNames] : n \in 1..MaxRepos} :
         helper = [op |-> "raise_pull_request", config |-> payload,
                   TARGETS_CONFIG |-> payload, branches |-> branches,
                   k |-> 0, sent |-> <<>>]

InitHelpers ==
    /\ IdlePipeline
    /\ args = NoArgs
    /\ returned = NoReturn
    /\ history = <<>>
    /\ \/ InitLoad
       \/ InitCheckout
       \/ InitPush
       \/ InitCommit
       \/ InitRaise

\* load_target_repos handles the next entry
LoadTargetRepo ==
    /\ helper.op = "load_target_repos"
    /\ loading.k < Len(loading.repos)
    /\ ~loading.raised
    /\ loading' = LoadRepo(loading)
    /\ UNCHANGED <<pipeline, scan, repo, helper>>

\* checkout_branch is called on the repository
CheckoutBranch ==
    /\ helper.op = "checkout_branch"
    /\ ~helper.done
    /\ LET r == checkout_branch(repo, helper.branch_name, helper.from_branch,
                                helper.checkout)
       IN  /\ repo' = r.repo
           /\ helper' = [helper EXCEPT !.done = TRUE, !.ret = r.ret]
    /\ UNCHANGED <<pipeline, scan, loading>>

\* push_changes is called on a branch whose remote is valid and whose
\* pull goes through; remote.push returns the drawn list
PushChanges ==
    /\ helper.op = "push_changes"
    /\ ~helper.done
    /\ LET r == push_changes(helper.branch, "ok", "ok",
                             PushInfoOutcome(helper.result))
       IN  helper' = [helper EXCEPT !.done = TRUE, !.ret = r.ret,
                                    !.ops = r.ops, !.branch = r.branch]
    /\ UNCHANGED <<pipeline, scan, loading, repo>>

\* the commit stage of main.py calls commit_changes, which builds the
\* message
CommitChanges ==
    /\ helper.op = "commit_changes"
    /\ ~helper.done
    /\ LET a == CommitArguments(helper.config)
       IN  helper' = [helper EXCEPT
                         !.done = TRUE,
                         !.title = a.title,
                         !.description = a.description,
                         !.commit_message =
                             commit_message(a.title, a.description)]
    /\ UNCHANGED <<pipeline, scan, loading, repo>>

\* main.py lines 120-121 and 234-235 for the next repository of the
\* batch: the payload is taken from the configuration, rewritten and sent
RaisePullRequest ==
    /\ helper.op = "raise_pull_request"
    /\ helper.k < Len(helper.branches)
    /\ LET copied == helper.TARGETS_CONFIG
           rewritten == pull_request_payload(copied,
                                             helper.branches[helper.k + 1])
       IN  helper' = [helper EXCEPT
                         !.k = @ + 1,
                         !.sent = Append(@, [body |-> rewritten.body.value,
                                             head |-> rewritten.head,
                                             base |-> rewritten.base]),
                         !.TARGETS_CONFIG =
                             TARGETS_CONFIG_after_raise(@, rewritten)]
    /\ UNCHANGED <<pipeline, scan, loading, repo>>

NextHelpers ==
    \/ LoadTargetRepo
    \/ CheckoutBranch
    \/ PushChanges
    \/ CommitChanges
    \/ RaisePullRequest

SpecHelpers == InitHelpers /\ [][NextHelpers]_vars

(***************************************************************************)
(* Properties of the pipeline.                                             *)
(***************************************************************************)
Called(op) == \E i \in 1..Len(calls) : calls[i] = op

\* the stage a helper call belongs to
StageRank(op) ==
    CASE op = "identity_setup" -> 1
      [] op = "checkout_branch" -> 2
      [] op = "search_and_replace" -> 3
      [] op \in {"get_files_count", "has_tracking_branch", "needs_push",
                 "is_open_pull_requests"} -> 4
      [] op = "commit_changes" -> 5
      [] op \in {"push_changes", "pull", "push"} -> 6
      [] op = "raise_pull_request" -> 7

\* ChangeEvaluation has looked at the working tree of the current repository
Evaluated == Called("get_files_count")

\* C1: in mode "dev" the only helper ever called for a repository is the
\* scan, it runs with search_only set, and the scan writes no file.
C1_DevInspectsOnly ==
    MODE = "dev" =>
        /\ \A i \in 1..Len(calls) : calls[i] = "search_and_replace"
        /\ Called("search_and_replace") => flags.search_only
        /\ ~wrote

\* a dev run has scanned a repository, found matches and finished with it
C1_Witness ==
    /\ MODE = "dev"
    /\ calls = <<"search_and_replace">>
    /\ match_count_total > 0
    /\ status = "completed"

\* C2: in mode "prod" the helper calls of one repository follow the stage
\* order IdentitySetup, BranchCheck, SearchAndReplace, ChangeEvaluation,
\* Commit, Push, CreatePullRequest, each of the single-call stages is
\* entered at most once, and while a repository's pipeline runs every
\* earlier repository's pipeline has ended.
C2_StageOrder ==
    MODE = "prod" =>
        /\ \A i, j \in 1..Len(calls) :
              i < j => /\ StageRank(calls[i]) <= StageRank(calls[j])
                       /\ (StageRank(calls[i]) = StageRank(calls[j])
                             => StageRank(calls[i]) \in {4, 6})
        /\ idx >= 1 => ended >= idx - 1
        /\ status = "running" => ended = idx - 1

\* a prod run went through all seven stages for its second repository
C2_Witness ==
    /\ MODE = "prod"
    /\ idx = 2
    /\ Called("identity_setup")
    /\ Called("checkout_branch")
    /\ Called("search_and_replace")
    /\ Called("get_files_count")
    /\ Called("commit_changes")
    /\ Called("push")
    /\ Called("raise_pull_request")

\* C3: when a gating step (identity setup, branch check, scan, open-request
\* query, push, request creation) fails for a repository other than the
\* last one of the batch, the run goes on with the next repository.
C3_SkipToNext ==
    (idx >= 1 /\ TARGET_REPOS[idx] # TARGET_REPOS[Len(TARGET_REPOS)]
       /\ status \in {"failed", "fault"})
        => pc = "loop"

\* the failure categories and the status main.py exits with for each
Categories == {"invalid_mode", "identity", "branch", "search", "pr_query",
               "push", "pull_request"}

ExitStatus(category) ==
    CASE category = "invalid_mode" -> EXIT_INVALID_MODE
      [] category = "identity" -> EXIT_IDENTITY
      [] category = "branch" -> EXIT_BRANCH
      [] category = "search" -> EXIT_SEARCH
      [] category = "pr_query" -> EXIT_PR_QUERY
      [] category = "push" -> EXIT_PUSH
      [] category = "pull_request" -> EXIT_PULL_REQUEST

\* the category of the failure a run exited with
FailureCategory ==
    IF MODE \notin DOMAIN APP_MODES THEN "invalid_mode"
    ELSE CASE calls[Len(calls)] = "identity_setup" -> "identity"
           [] calls[Len(calls)] = "checkout_branch" -> "branch"
           [] calls[Len(calls)] = "search_and_replace" -> "search"
           [] calls[Len(calls)] = "is_open_pull_requests" -> "pr_query"
           [] calls[Len(calls)] = "raise_pull_request" -> "pull_request"
           [] OTHER -> "push"

\* C4: a run that exits on a failure exits with a non-zero status that no
\* other failure category uses.
C4_DistinctExitStatus ==
    (pc = "exited" /\ exit_code # EXIT_OK) =>
        /\ exit_code = ExitStatus(FailureCategory)
        /\ \A c \in Categories \ {FailureCategory} :
              ExitStatus(c) # exit_code

\* C5: the run never ends by an exception that nothing catches.
C5_NoUnhandledFault == pc # "fault"

\* C6: when the credential of the repository's provider is not set, the
\* open-request query returns a pair whose error component is true.
C6_MissingCredentialIsError ==
    query_result.token = "unset" =>
        /\ query_result.ret.kind = "pair"
        /\ query_result.ret.error

\* C7: whatever goes wrong inside push_changes, the repository ends as a
\* push failure: skipped, or the run exits with the push-failure status.
C7_PushFailureReported ==
    push_failure # "none" =>
        /\ status = "failed"
        /\ pc \in {"loop", "exited"}
        /\ pc = "exited" => exit_code = EXIT_PUSH

\* C8 as stated: with zero matches and untracked files in the working
\* tree, ChangeEvaluation leaves the commit flag on.
C8_UntrackedKeepsCommit ==
    (MODE = "prod" /\ Evaluated /\ match_count_total = 0
       /\ tree.untracked > 0)
        => flags.commit

\* C8 amended: with zero matches and at least one modified or staged file,
\* ChangeEvaluation leaves the commit flag on and the commit is attempted
\* before any push; untracked files are not counted.
C8_LeftoverKeepsCommit ==
    (MODE = "prod" /\ Evaluated /\ match_count_total = 0
       /\ tree.modified + tree.staged > 0)
        => /\ flags.commit
           /\ pc \notin {"evaluate", "commit"} => Called("commit_changes")

\* zero matches, a modified file and no untracked file: the commit ran
C8_Witness ==
    /\ MODE = "prod"
    /\ match_count_total = 0
    /\ tree.modified > 0
    /\ tree.untracked = 0
    /\ tree.staged = 0
    /\ Called("commit_changes")

\* C9: when the provider answers that the request already exists, the
\* repository is not a failed one and the run does not exit with the
\* pull-request-raise status.
C9_AlreadyExistsNotFatal ==
    create_result = "already_exists" =>
        /\ status # "failed"
        /\ ~(pc = "exited" /\ exit_code = EXIT_PULL_REQUEST)

\* C10 as stated: in mode "prod" request creation is never sent to a
\* provider that holds an open request for the same refs.
C10_NeverCreatesDuplicate ==
    (MODE = "prod" /\ Called("raise_pull_request"))
        => create_result # "already_exists"

\* C10 amended: in mode "prod" request creation is never invoked for a
\* repository once the open-request query has reported an open request;
\* the paths of ChangeEvaluation that do not query are not covered.
C10_NoCreationAfterOpenReported ==
    (MODE = "prod" /\ query_result.ret.kind = "pair"
       /\ ~query_result.ret.error /\ query_result.ret.open)
        => /\ ~flags.create_pull_request
           /\ ~Called("raise_pull_request")
           /\ status = "skipped"

\* the query reported an open request and the repository was left
C10_Witness ==
    /\ MODE = "prod"
    /\ Called("is_open_pull_requests")
    /\ query_result.ret.open
    /\ status = "skipped"
    /\ pc = "loop"

\* the flags ChangeEvaluation may switch off
GatedFlags == {"commit", "push", "create_pull_request"}

\* C11 as stated: from the first repository on, no step of the run turns a
\* commit, push or create_pull_request flag that is off back on.
C11_FlagsOnlyDisabled ==
    [][idx >= 1 => \A k \in GatedFlags : flags'[k] => flags[k]]_vars

\* C11 amended: while the run stays with one repository, no step turns a
\* commit, push or create_pull_request flag that is off back on; the flags
\* are read afresh from the mode when the loop takes the next repository.
C11_FlagsOnlyDisabledPerRepo ==
    [][(idx >= 1 /\ idx' = idx)
          => \A k \in GatedFlags : flags'[k] => flags[k]]_vars

\* commit and push were switched off, the query let the creation proceed
\* and the pipeline went through both stages with the flags still off
C11_Witness ==
    /\ MODE = "prod"
    /\ pc = "pull_request"
    /\ Called("is_open_pull_requests")
    /\ ~flags.commit
    /\ ~flags.push
    /\ flags.create_pull_request

\* C12: in mode "prod", for a repository with zero matches, a clean working
\* tree and an up-to-date tracking branch whose provider holds an open
\* request and answers the query, nothing is committed, pushed or created,
\* the three flags are off, the repository is skipped without an error and
\* the run does not exit with a failure status.
C12_OpenRequestSkips ==
    (MODE = "prod" /\ match_count_total = 0 /\ tree = CleanTree
       /\ has_tracking_branch(branch) /\ ~needs_push(branch)
       /\ query_result.asked /\ query_result.answer = "list"
       /\ query_result.open)
        => /\ ~Called("commit_changes")
           /\ ~Called("push_changes")
           /\ ~Called("raise_pull_request")
           /\ \A k \in GatedFlags : ~flags[k]
           /\ status = "skipped"
           /\ pc \in {"loop", "finished"}
           /\ exit_code \in {-1, EXIT_OK}

\* the last repository of a batch had an open request and the run ended
\* with the summary
C12_Witness ==
    /\ MODE = "prod"
    /\ match_count_total = 0
    /\ tree = CleanTree
    /\ query_result.asked
    /\ query_result.open
    /\ query_result.answer = "list"
    /\ idx = Len(TARGET_REPOS)
    /\ status = "skipped"
    /\ pc = "finished"

\* C13 as stated: in mode "prod" a repository with zero matches whose
\* active branch has no tracking branch is skipped, with no commit, push or
\* request creation.
C13_NoUpstreamSkips ==
    (MODE = "prod" /\ match_count_total = 0 /\ Evaluated
       /\ ~branch.tracking)
        => /\ status = "skipped"
           /\ ~Called("commit_changes")
           /\ ~Called("push_changes")
           /\ ~Called("raise_pull_request")

\* C13 amended: in mode "prod" a repository with zero matches, no modified
\* or staged file and no tracking branch is skipped, with no commit, push
\* or request creation; with a modified or staged file left over the
\* pipeline goes on to the commit.
C13_CleanNoUpstreamSkips ==
    (MODE = "prod" /\ match_count_total = 0 /\ Evaluated
       /\ tree.modified + tree.staged = 0
       /\ ~branch.tracking)
        => /\ status = "skipped"
           /\ ~Called("commit_changes")
           /\ ~Called("push_changes")
           /\ ~Called("raise_pull_request")

\* a repository without matches, leftovers and upstream was skipped
C13_Witness ==
    /\ MODE = "prod"
    /\ match_count_total = 0
    /\ tree.modified + tree.staged = 0
    /\ Called("has_tracking_branch")
    /\ ~branch.tracking
    /\ status = "skipped"

NewCalls == SubSeq(calls', Len(calls) + 1, Len(calls'))

\* C21: when push_changes finds the remote branch, it sets the upstream if
\* there is none and pulls before anything is pushed; it pushes exactly
\* when the branch is then ahead of its upstream, and otherwise succeeds
\* without a push.
C21_PullBeforePush ==
    [][(pc = "push" /\ flags.push /\ branch.remote_exists
        /\ push_failure' # "remote")
       => LET tracked == [branch EXCEPT !.tracking = TRUE]
              pushed == \E i \in 1..Len(NewCalls) : NewCalls[i] = "push"
          IN  /\ NewCalls[1] = "push_changes"
              /\ NewCalls[2] = "pull"
              /\ branch'.tracking
              /\ pushed <=> (push_failure' # "pull" /\ needs_push(tracked))
              /\ (push_failure' # "pull" /\ ~needs_push(tracked))
                    => /\ pc' = StageAfter("push")
                       /\ status' = status
                       /\ branch' = tracked]_vars

\* an existing remote branch was pulled from and nothing had to be pushed
C21_Witness ==
    /\ pc = StageAfter("push")
    /\ Called("pull")
    /\ ~Called("push")
    /\ push_failure = "none"
    /\ branch.tracking /\ ~branch.ahead

\* how many times helper op was called for the current repository
Count(op) == Cardinality({i \in 1..Len(calls) : calls[i] = op})

\* C22: with zero matches, no modified or staged file, an upstream that is
\* up to date, a configured pull-request payload and a query that reported
\* no open request, the repository gets no commit and no push, and request
\* creation is invoked exactly once before its pipeline ends.
C22_OnlyRequestCreation ==
    (MODE = "prod" /\ match_count_total = 0 /\ Evaluated
       /\ tree.modified + tree.staged = 0
       /\ PULL_REQUEST # {}
       /\ query_result.ret = Pair(FALSE, FALSE))
        => /\ has_tracking_branch(branch) /\ ~needs_push(branch)
           /\ ~Called("commit_changes")
           /\ ~Called("push_changes") /\ ~Called("pull") /\ ~Called("push")
           /\ Count("raise_pull_request") <= 1
           /\ status # "running" => Count("raise_pull_request") = 1

\* the provider was asked, reported no open request, and the request was
\* then created
C22_Witness ==
    /\ match_count_total = 0
    /\ tree = CleanTree
    /\ query_result.asked /\ query_result.ret = Pair(FALSE, FALSE)
    /\ Count("raise_pull_request") = 1
    /\ create_result = "created"
    /\ status = "completed"

\* C23: with zero matches and a modified or staged file in the working
\* tree, a prod run leaves commit, push and request creation enabled and
\* calls commit_changes, with or without an upstream branch.
C23_LeftoverIsCommitted ==
    (MODE = "prod" /\ match_count_total = 0 /\ Evaluated
       /\ tree.modified + tree.staged > 0)
        => /\ \A k \in GatedFlags : flags[k]
           /\ Count("commit_changes") =
                 IF pc = StageAfter("evaluate") THEN 0 ELSE 1

\* a staged file on a branch without an upstream was committed
C23_Witness ==
    /\ MODE = "prod"
    /\ match_count_total = 0
    /\ tree.staged > 0 /\ tree.modified = 0
    /\ Called("commit_changes")
    /\ ~Called("push_changes")
    /\ ~branch.tracking
    /\ pc = StageAfter("commit")

\* C24: when request creation is still enabled but no pull-request payload
\* is configured, the creation stage ends the repository's pipeline without
\* calling the helper and without a failure, and a run whose last
\* repository ended that way emits the summary and exits with status 0.
C24_MissingSpecIsNoFailure ==
    [][/\ (pc = "pull_request" /\ flags.create_pull_request
             /\ PULL_REQUEST = {})
            => /\ calls' = calls
               /\ create_result' = "none"
               /\ status' = "skipped"
               /\ pc' = "loop"
               /\ exit_code' = -1
       /\ (pc = "loop" /\ idx = Len(TARGET_REPOS) /\ PULL_REQUEST = {}
             /\ flags.create_pull_request /\ status = "skipped")
            => /\ summary'
               /\ exit_code' = EXIT_OK]_vars

\* the last repository was committed and pushed, had no payload to raise a
\* request from, and the run finished
C24_Witness ==
    /\ pc = "finished"
    /\ idx = Len(TARGET_REPOS)
    /\ PULL_REQUEST = {}
    /\ flags.create_pull_request
    /\ Called("push_changes")
    /\ status = "skipped"
    /\ exit_code = EXIT_OK

\* the helper calls and transfers that go over the network
NetworkOps == {"is_open_pull_requests", "pull", "push", "raise_pull_request"}

\* C25: for each repository of a run, the open-request query, the pull, the
\* push and the request creation are each invoked at most once, whether
\* they succeed or fail.
C25_NoRetry ==
    /\ \A op \in NetworkOps : Count(op) <= 1
    /\ Count("push_changes") <= 1

\* the pull went through, the push was rejected, and the repository is
\* failed after that single push
C25_Witness ==
    /\ Count("pull") = 1
    /\ Count("push") = 1
    /\ push_failure = "push"
    /\ status = "failed"

\* C32: whatever the flags of a repository have become, the step that
\* takes the next repository sets the six flags to the values of the run's
\* mode, and they keep these values until ChangeEvaluation.
C32_FlagsResetPerRepository ==
    [][/\ idx' # idx => (idx' = idx + 1 /\ flags' = APP_MODES[MODE])
       /\ pc' \in {"identity", "branch", "search", "evaluate"}
            => flags' = APP_MODES[MODE]]_vars

\* the first of two repositories ended with commit, push and request
\* creation switched off; the loop is about to take the second
C32_Witness ==
    /\ MODE = "prod"
    /\ pc = "loop"
    /\ idx = 1
    /\ Len(TARGET_REPOS) = 2
    /\ status = "skipped"
    /\ \A k \in GatedFlags : ~flags[k]

\* C33: a step of the commit stage always leads to the push stage, with the
\* flags, the status and the exit code as they were, whether or not the
\* commit was recorded; with the push flag on the push stage calls
\* push_changes, and a push that does not end the repository leads to the
\* request-creation stage.
C33_FailedCommitIsNoGate ==
    [][/\ pc = "commit"
            => /\ pc' = "push"
               /\ flags.commit => NewCalls = <<"commit_changes">>
               /\ UNCHANGED <<flags, status, ended, exit_code>>
       /\ (pc = "push" /\ flags.push)
            => (NewCalls # <<>> /\ NewCalls[1] = "push_changes")
       /\ (pc = "push" /\ pc' \notin {"loop", "exited", "fault"})
            => pc' = "pull_request"]_vars

\* commit_changes was called and left the branch level with its remote
\* branch (a commit that is recorded puts it ahead), after which
\* push_changes ran, found nothing to push and request creation is next
C33_Witness ==
    /\ pc = "pull_request"
    /\ flags.create_pull_request
    /\ \E i \in 1..(Len(calls) - 1) :
          calls[i] = "commit_changes" /\ calls[i + 1] = "push_changes"
    /\ ~Called("push")

\* C34: a run that exits after a failed stage has failed at the last
\* position of the batch; a failure at an earlier position leaves the run
\* going, also when the batch holds the same working tree twice.
C34_OnlyLastFailureExits ==
    (pc = "exited" /\ status = "failed") => idx = Len(TARGET_REPOS)

\* the four ends of a repository's pipeline that are no failure
EndedNoUpstream ==
    /\ status = "skipped"
    /\ Called("has_tracking_branch")
    /\ ~branch.tracking

EndedOpenRequest ==
    /\ status = "skipped"
    /\ query_result.ret.open

EndedNothingToPush ==
    /\ status = "skipped"
    /\ Called("needs_push")
    /\ ~Called("is_open_pull_requests")
    /\ PULL_REQUEST = {}

EndedNoSpec ==
    /\ status = "skipped"
    /\ flags.create_pull_request
    /\ Called("push_changes")
    /\ PULL_REQUEST = {}

\* C35: a repository that ends without a failure (no upstream branch, an
\* open request, nothing to push with no pull-request spec, no spec at
\* creation time) leaves the run in the loop with no exit status set, at
\* the last position too; from there the run renders the summary and
\* finishes with status 0.
C35_EarlyEndIsNoFailure ==
    [][/\ status' = "skipped"
            => /\ pc' \in {"loop", "finished"}
               /\ exit_code' \in {-1, EXIT_OK}
               /\ \/ EndedNoUpstream' \/ EndedOpenRequest'
                  \/ EndedNothingToPush' \/ EndedNoSpec'
       /\ (status = "skipped" /\ pc = "loop" /\ idx = Len(TARGET_REPOS))
            => /\ summary'
               /\ pc' = "finished"
               /\ exit_code' = EXIT_OK]_vars

\* the last of two repositories had no upstream branch and nothing to
\* commit; the run finished with the summary
C35_Witness ==
    /\ pc = "finished"
    /\ summary
    /\ exit_code = EXIT_OK
    /\ Len(TARGET_REPOS) = 2
    /\ idx = 2
    /\ EndedNoUpstream

\* C36: a run that is over, normally or with the failure status of its last
\* repository, and in which a repository was scanned successfully has
\* emitted the summary.
C36_SummaryAtEveryEnd ==
    (pc \in {"finished", "exited"} /\ final_result # {}) => summary

\* C37: after push_changes returned success the active branch has a
\* tracking branch, whether the remote branch existed before (a push being
\* needed or not) or was created by the push.
C37_PushedBranchIsTracked ==
    (Called("push_changes") /\ push_failure = "none")
        => has_tracking_branch(branch)

\* push_changes succeeded without a pull, so the remote branch did not
\* exist and the push created it
C37_Witness ==
    /\ pc = "pull_request"
    /\ Called("push_changes")
    /\ push_failure = "none"
    /\ Called("push")
    /\ ~Called("pull")
    /\ branch.remote_exists

(***************************************************************************)
(* Properties of search_and_replace.                                       *)
(***************************************************************************)
Scanned == returned.kind # "unset"

\* the directory before and after the last scan
Before == history[Len(history) - 1]
After == history[Len(history)]

RECURSIVE SumMatch(_, _)
SumMatch(match, paths) ==
    IF paths = {} THEN 0
    ELSE LET path == CHOOSE q \in paths : TRUE
         IN  match[path] + SumMatch(match, paths \ {path})

\* the text a file holds once every pattern that compiles has been
\* substituted in it, in the order of the pattern set
RECURSIVE ApplyAll(_, _, _)
ApplyAll(ps, k, text) ==
    IF k > Len(ps) THEN text
    ELSE ApplyAll(ps, k + 1,
                  IF compiles(ps[k].pattern)
                  THEN sub(ps[k].pattern, ps[k].replacement, text)
                  ELSE text)

\* every replacement is text
TextReplacements ==
    \A k \in 1..Len(args.patterns) : args.patterns[k].replacement # NonText

\* no pattern matches its own replacement
NoSelfMatch ==
    \A k \in 1..Len(args.patterns) :
        /\ compiles(args.patterns[k].pattern)
        /\ args.patterns[k].replacement # NonText
        /\ findall(args.patterns[k].pattern, args.patterns[k].replacement) = 0

\* C14: when no pattern matches its own replacement, every file can be
\* written and a first run rewrote, committed and pushed the files, the
\* scan of the run that follows finds nothing, so that ChangeEvaluation of
\* that run, on the clean tree and the pushed branch the first run left,
\* switches commit and push off and does not proceed to a commit.
C14_RerunConverges ==
    (Len(history) = 3 /\ ~args.search_only /\ NoSelfMatch
       /\ returned.kind = "report" /\ history[2] # history[1]
       /\ \A i \in 1..Len(args.directory) : args.directory[i].access = "rw")
        => LET pushed == [tracking |-> TRUE, ahead |-> FALSE,
                          remote_exists |-> TRUE]
               e == ChangeEvaluation(APP_MODES["prod"],
                                     MatchCountTotal(returned.result),
                                     CleanTree, pushed, {"github"})
           IN  /\ ~e.flags.commit
               /\ ~e.flags.push
               /\ e.next # "proceed"

\* C15: in a report the count of every pattern is the sum of its per-file
\* counts, and every file listed for a pattern has a count above zero.
C15_CountIsSumOfMatches ==
    returned.kind = "report" =>
        \A pattern \in DOMAIN returned.result :
            LET entry == returned.result[pattern]
            IN  /\ entry.count = SumMatch(entry.match, DOMAIN entry.match)
                /\ \A path \in DOMAIN entry.match : entry.match[path] > 0

\* a pattern was found in two files, three times in all
C15_Witness ==
    /\ returned.kind = "report"
    /\ \E pattern \in DOMAIN returned.result :
          /\ Cardinality(DOMAIN returned.result[pattern].match) = 2
          /\ returned.result[pattern].count = 3

\* C16: when no pattern matches its own replacement, the content a second
\* scan leaves is the content the first scan left.
C16_OnePassIsFixpoint ==
    (Len(history) = 3 /\ ~args.search_only /\ NoSelfMatch
       /\ returned.kind = "report")
        => history[3] = history[2]

\* C17: a file whose path, prefixed with the repository's folder name, is
\* in the exclusion list is not searched, is listed for no pattern and
\* keeps its content.
C17_ExcludedUntouched ==
    Scanned =>
        \A i \in 1..Len(args.directory) :
            RootRelpath(args.directory[i].relpath) \in args.excluded_files
                => /\ \A k \in 1..Len(args.patterns) :
                         <<i, k>> \notin returned.scanned
                   /\ i \notin returned.attempted
                   /\ After[i].content = history[1][i].content
                   /\ returned.kind = "report"
                        => \A pattern \in DOMAIN returned.result :
                              args.directory[i].relpath
                                 \notin DOMAIN returned.result[pattern].match

\* an excluded file holds a match of a pattern and the scan may write
C17_Witness ==
    /\ returned.kind = "report"
    /\ ~args.search_only
    /\ RootRelpath(args.directory[1].relpath) \in args.excluded_files
    /\ \E k \in 1..Len(args.patterns) :
          /\ compiles(args.patterns[k].pattern)
          /\ args.patterns[k].replacement # NonText
          /\ findall(args.patterns[k].pattern, args.directory[1].content) > 0

\* C18: a scan that returns a report starts a write for a file if and only
\* if the file was read, search_only is false and the content with all
\* patterns applied differs from the content read; a file that can be
\* written then holds that content, every other file holds what it held.
C18_WritesIffChanged ==
    returned.kind = "report" =>
        \A i \in 1..Len(Before) :
            LET read == /\ i \in Walked(Before, args.excluded_files,
                                        args.hidden_dirs)
                        /\ Before[i].access # "unreadable"
                updated == ApplyAll(args.patterns, 1, Before[i].content)
                write == read /\ ~args.search_only
                              /\ updated # Before[i].content
            IN  /\ i \in returned.attempted <=> write
                /\ After[i].content =
                      IF write /\ Before[i].access = "rw"
                      THEN updated ELSE Before[i].content

\* of two files the scan rewrote the first and left the second alone
C18_Witness ==
    /\ returned.kind = "report"
    /\ Len(history) = 2
    /\ Len(args.directory) = 2
    /\ returned.attempted = {1}
    /\ history[2][1].content # history[1][1].content
    /\ history[2][2].content = history[1][2].content

\* C19: with text replacements, a file that cannot be read or written and
\* a pattern that does not compile do not end the scan: it returns a
\* report, and every file the walk reaches and can read is searched for
\* every pattern that compiles.
C19_FailuresAreIsolated ==
    (Scanned /\ TextReplacements) =>
        /\ returned.kind = "report"
        /\ \A i \in Walked(args.directory, args.excluded_files,
                           args.hidden_dirs) :
              args.directory[i].access # "unreadable"
                 => \A k \in 1..Len(args.patterns) :
                       compiles(args.patterns[k].pattern)
                          => <<i, k>> \in returned.scanned

\* the first file could not be read and the first pattern did not compile;
\* the second file was searched for the second pattern, which it holds
C19_Witness ==
    /\ returned.kind = "report"
    /\ Len(args.directory) = 2
    /\ Len(args.patterns) = 2
    /\ args.directory[1].access = "unreadable"
    /\ ~compiles(args.patterns[1].pattern)
    /\ returned.scanned = {<<2, 2>>}
    /\ returned.result[args.patterns[2].pattern].count > 0

\* C31: when hidden directories are not included, a file below a
\* directory whose name starts with '.' is not searched, is listed for no
\* pattern and keeps its content; a file whose own name starts with '.' in
\* a directory that is not hidden is searched like any other file.
C31_HiddenDirectoriesPruned ==
    (Scanned /\ ~args.hidden_dirs) =>
        \A i \in 1..Len(args.directory) :
            LET path == args.directory[i].relpath
                below == \E j \in 1..(Len(path) - 1) : path[j] \in HiddenNames
            IN  /\ below =>
                     /\ \A k \in 1..Len(args.patterns) :
                           <<i, k>> \notin returned.scanned
                     /\ i \notin returned.attempted
                     /\ After[i].content = history[1][i].content
                     /\ returned.kind = "report"
                          => \A pattern \in DOMAIN returned.result :
                                path \notin DOMAIN returned.result[pattern].match
                /\ (~below /\ path[Len(path)] \in HiddenNames
                      /\ RootRelpath(path) \notin args.excluded_files
                      /\ args.directory[i].access # "unreadable"
                      /\ returned.kind = "report")
                     => \A k \in 1..Len(args.patterns) :
                           compiles(args.patterns[k].pattern)
                              => <<i, k>> \in returned.scanned

\* the first file lies below a hidden directory and holds a match that is
\* not reported; the second is a hidden file at the root whose match is
C31_Witness ==
    /\ returned.kind = "report"
    /\ ~args.hidden_dirs
    /\ Len(args.directory) = 2
    /\ args.directory[1].relpath = <<".d", "f1">>
    /\ args.directory[2].relpath = <<".f2">>
    /\ \E k \in 1..Len(args.patterns) :
          LET pattern == args.patterns[k].pattern
          IN  /\ compiles(pattern)
              /\ findall(pattern, history[1][1].content) > 0
              /\ DOMAIN returned.result[pattern].match = {<<".f2">>}

\* the text the k-th pattern is substituted in: the content read with the
\* patterns before it applied
RECURSIVE Buffer(_, _, _)
Buffer(ps, k, text) ==
    IF k <= 1 THEN text
    ELSE LET before == Buffer(ps, k - 1, text)
         IN  IF compiles(ps[k - 1].pattern)
             THEN sub(ps[k - 1].pattern, ps[k - 1].replacement, before)
             ELSE before

\* the count the report of the last scan holds for a pattern in a file
Recorded(pattern, relpath) ==
    IF relpath \in DOMAIN returned.result[pattern].match
    THEN returned.result[pattern].match[relpath]
    ELSE 0

\* C38: in the report of a scan the count of a pattern in a file is the
\* number of substitutions the pattern performs on that file, so that a
\* pattern recorded with no match in a file leaves the text it is
\* substituted in as it was.
C38_CountIsSubstitutions ==
    (Len(history) = 2 /\ returned.kind = "report")
        => \A i \in Walked(Before, args.excluded_files, args.hidden_dirs) :
              Before[i].access # "unreadable"
                => \A k \in 1..Len(args.patterns) :
                      LET pattern == args.patterns[k].pattern
                          buffer == Buffer(args.patterns, k,
                                           Before[i].content)
                          recorded == Recorded(pattern, Before[i].relpath)
                      IN  compiles(pattern)
                            => /\ recorded = findall(pattern, buffer)
                               /\ recorded = 0
                                    => sub(pattern,
                                           args.patterns[k].replacement,
                                           buffer) = buffer

(***************************************************************************)
(* Properties of the helpers.                                              *)
(***************************************************************************)
\* C26: every handle in the list load_target_repos builds was created by
\* the entry that appended it, carries a descriptor, and that descriptor
\* was built from the same entry; no handle is in the list twice.
C26_OneDescriptorPerHandle ==
    LET res == loading.result
    IN  \A i \in 1..Len(res) :
          /\ res[i].handle = res[i].entry
          /\ loading.scm_provider[res[i].handle].type # "none"
          /\ loading.scm_provider[res[i].handle].entry = res[i].handle
          /\ \A j \in 1..Len(res) : i # j => res[i].handle # res[j].handle

\* checkout_branch has returned
CheckedOut == helper.op = "checkout_branch" /\ helper.done

\* the base of a new branch: from_branch, or the current branch
Base == IF helper.from_branch = None THEN helper.before.active
        ELSE helper.from_branch

\* C27: checkout_branch switches to the local branch when there is one;
\* otherwise it creates the branch from the same-named branch of origin,
\* tracking it; otherwise it creates the branch from the base, taken from
\* the local branches first and from origin second.  When the checkout
\* goes through, the helper returns True and the branch is active.
C27_CheckoutPriority ==
    CheckedOut =>
      LET b == helper.before
          n == helper.branch_name
      IN  /\ n \in b.branches =>
                /\ repo.branches = b.branches
                /\ repo.start = <<>>
                /\ repo.tracking = b.tracking
          /\ (n \notin b.branches /\ n \in b.refs) =>
                /\ repo.branches = b.branches \cup {n}
                /\ repo.start = <<"remotes", n>>
                /\ n \in repo.tracking
          /\ (n \notin b.branches /\ n \notin b.refs
                /\ Base \in b.branches) =>
                /\ repo.branches = b.branches \cup {n}
                /\ repo.start = <<"heads", Base>>
                /\ repo.tracking = b.tracking
          /\ (n \notin b.branches /\ n \notin b.refs
                /\ Base \notin b.branches /\ Base \in b.refs) =>
                /\ repo.branches = b.branches \cup {n}
                /\ repo.start = <<"remotes", Base>>
                /\ repo.tracking = b.tracking
          /\ (n \in b.branches \cup b.refs \/ Base \in b.branches \cup b.refs)
                => /\ helper.ret <=> helper.checkout = "ok"
                   /\ repo.active = IF helper.ret THEN n ELSE b.active

\* a new branch was created from a base that exists locally and on origin,
\* and switched to
C27_Witness ==
    /\ CheckedOut
    /\ helper.branch_name \notin helper.before.branches \cup helper.before.refs
    /\ helper.from_branch \in helper.before.branches \cap helper.before.refs
    /\ helper.from_branch # helper.before.active
    /\ repo.start = <<"heads", helper.from_branch>>
    /\ helper.ret
    /\ repo.active = helper.branch_name

\* C28: when neither the target branch nor the base exists locally or on
\* origin, checkout_branch returns False and leaves the repository as it
\* was: no branch is created, the active branch is the same.
C28_MissingBaseNoSideEffect ==
    (CheckedOut
       /\ helper.branch_name \notin helper.before.branches \cup helper.before.refs
       /\ Base \notin helper.before.branches \cup helper.before.refs)
        => /\ ~helper.ret
           /\ repo = helper.before

\* a base was named that exists nowhere, while the checkout itself would
\* have gone through
C28_Witness ==
    /\ CheckedOut
    /\ helper.checkout = "ok"
    /\ helper.from_branch # None
    /\ helper.before.active # "detached"
    /\ helper.branch_name \notin helper.before.branches \cup helper.before.refs
    /\ Base \notin helper.before.branches \cup helper.before.refs
    /\ ~helper.ret

\* push_changes has returned after calling remote.push
PushAttempted ==
    /\ helper.op = "push_changes"
    /\ helper.done
    /\ \E i \in 1..Len(helper.ops) : helper.ops[i] = "push"

\* C29: when push_changes has attempted the push, it returns True exactly
\* when the list of per-ref results is not empty and the flags of every
\* result are one of fast-forward, new-head, up-to-date, forced-update and
\* new-tag.
C29_PushFlagsDecide ==
    PushAttempted =>
        (helper.ret = "true" <=>
            /\ Len(helper.result) # 0
            /\ \A i \in 1..Len(helper.result) :
                  helper.result[i] \in
                     {{"FAST_FORWARD"}, {"NEW_HEAD"}, {"UP_TO_DATE"},
                      {"FORCED_UPDATE"}, {"NEW_TAG"}})

\* the first ref was fast-forwarded, the second was rejected: the push is
\* a failure
C29_Witness ==
    /\ PushAttempted
    /\ Len(helper.result) = 2
    /\ helper.result[1] = {"FAST_FORWARD"}
    /\ helper.result[2] = {"ERROR", "REJECTED"}
    /\ helper.ret = "false"

\* C30: the message commit_changes commits with is the title alone when
\* no description is given, and otherwise the title, a blank line and the
\* description.
C30_BlankLineBeforeDescription ==
    (helper.op = "commit_changes" /\ helper.done) =>
        helper.commit_message =
            IF Given(helper.description)
            THEN helper.title \o <<"\n", "\n">> \o helper.description
            ELSE helper.title

\* C39: the payload sent for every repository of a batch is the configured
\* payload with its body joined once, its head set to the repository's
\* active branch and its base prefixed, whatever was sent for the
\* repositories before it.
C39_PayloadPerRepository ==
    helper.op = "raise_pull_request"
        => \A k \in 1..Len(helper.sent) :
              LET fresh == pull_request_payload(helper.config,
                                                helper.branches[k])
              IN  /\ helper.sent[k].body = fresh.body.value
                  /\ helper.sent[k].head = fresh.head
                  /\ helper.sent[k].base = fresh.base

\* two repositories on different branches were sent a request from a
\* configured body of two non-empty lines and an unprefixed base
C39_Witness ==
    /\ helper.op = "raise_pull_request"
    /\ Len(helper.sent) = 2
    /\ helper.branches[1] # helper.branches[2]
    /\ helper.config.body.value = <<<<"d">>, <<"e">>>>
    /\ ~helper.config.base.prefixed
    /\ helper.sent[2].body = <<"d", "\n", "e">>

====
